---- MODULE Spec2Model ----
(***************************************************************************)
(* The real-time audio subsystem of mymania (src/mymania/audio.py):        *)
(*   AudioFile   - the streaming decoder: a fill task on the asyncio       *)
(*                 event loop feeds an av.AudioFifo; read() consumes on    *)
(*                 the event loop, read_nowait() on the audio thread.      *)
(*   AudioPlayer - the realtime mixer: the PortAudio callback thread       *)
(*                 mixes the song and the active sound effects.            *)
(*                                                                         *)
(* Execution contexts.  The asyncio event loop is one thread: a step of a  *)
(* coroutine runs from one await to the next, and the actions of the       *)
(* model are these steps.  Worker threads (asyncio.to_thread) and the      *)
(* audio callback thread run concurrently with the loop; their steps       *)
(* interleave freely.  Where an event-loop step makes two accesses to the  *)
(* queue whose outcome the audio thread can change in between (the test    *)
(* and the read of read()), the step is split and LoopIdle keeps the other *)
(* coroutines from running inside it.                                      *)
(***************************************************************************)
EXTENDS Integers, Sequences, FiniteSets, TLC

\* ----------------------------------------------------------------- bounds
\* rate * buffer_time of AudioFile.open, scaled down (the program: 48000 * 5)
BufferSamples == 2
\* the largest number of frames one decode step appends to the queue
MaxChunk == 2
\* the largest tail the resampler still holds when the demuxer reports EOF
MaxTail == 1
\* total number of frames of the finite source
SrcLen == 8
\* the largest sample count a blocking read() asks for
MaxRead == 5
\* the largest sample count read_nowait() is called with
MaxNowait == 2
\* cap on call_soon_threadsafe callbacks queued on the loop and not yet run
MaxPending == 1
\* cap on the sound effects active at a time
MaxSfx == 2
\* the longest effect buffer, in frames, of the mixer taken with its effects alone
MaxSfxLen == 3
\* the readings of time.time() at the triggers are 0..MaxTime
MaxTime == 1
\* one millisecond, in frame durations, in the model of the callback's clocks
MsTicks == 2
\* the largest difference, either way, between time.perf_counter() and the
\* hardware timestamp at the first callback
OffMax == 3
\* cap on the hardware timestamps
MaxClock == 4
\* the longest delay of a callback after the end of the buffer before it
MaxGap == 1
\* the notes of a beatmap
NumNotes == 2
\* ticks between the hit times of two notes that follow each other
NoteGap == 2
\* ticks from the head of a hold note to its end
HoldLen == 3
\* the game time at which a game is left
MaxGameTime == 12

\* the most effects active in a callback whose output is computed
MaxMixSfx == 3
\* an effect's sample is a float in [-1.0, 1.0]: the multiples of 1/SfxDen
SfxDen == 2

\* SAMPLE_FMTS_DATA['s16'], the format the game opens the mixer with
min_val == -32768
max_val == 32767
zero_val == 0

Readers == {1, 2}
\* the callers of AudioFile.close(): AudioPlayer.stop_stream
Closers == {"stop", "main"}

Max(a, b) == IF a >= b THEN a ELSE b
Min(a, b) == IF a <= b THEN a ELSE b

VARIABLES
    \* ---- AudioFile
    fifo,                \* _fifo: the frames buffered, as indices into the decoded stream
    src_pos,             \* frames of the source decoded so far
    container,           \* self.container: "none" | "open"
    closing,             \* owners of a container.close() running in a worker thread
    eof,                 \* _eof
    not_full,            \* _not_full (asyncio.Event)
    enough_samples,      \* _enough_samples (asyncio.Event)
    enough_samples_num,  \* _enough_samples_num
    hungry_max,          \* the largest sample count a read() has waited for on the decoder
    read_lock,           \* _read_lock.locked()
    loop_set,            \* _loop is not None
    pending_calls,       \* _not_full.set callbacks queued by call_soon_threadsafe
    read_task,           \* _read_task: position of _fill_fifo
    thread_task,         \* _thread_task of _fill_fifo: "none" | "running" | "done"
    fill_cancel,         \* a cancel() of _read_task not yet delivered
    open_pc,             \* position of open()
    closer,              \* position of each close() caller
    reader,              \* each read() caller: position, request and last result
    nw,                  \* the audio thread's read_nowait: position, request, result
    \* ---- AudioPlayer
    stream,              \* _stream: "none" | "active" | "aborted" (there, not active)
    is_playing_song,     \* is_playing_song
    song,                \* self.song: "none" | "set" (the AudioFile above)
    song_lock,           \* holder of _song_reading_lock: "free" | "cb" | "stop"
    sfx_lock,            \* holder of _sfx_lock: "free" | "cb" | "stop"
    active_sfx,          \* _active_sfx: <<[len, pos, t]>>, the latest last
    cb,                  \* the audio thread's _audio_callback: position, frames asked for
    cb_raised,           \* an exception has left _audio_callback
    load_pc,             \* position of load_song
    stop_pc,             \* position of stop_stream
    api,                 \* the last call of the mixer's API and how it ended
    cb_since,            \* callbacks since that call: "none" | "ran" | "ended" (one of
                         \* them has cleared is_playing_song at the end of the song)
    \* ---- one slot of the callback's output buffer
    mix_pc,              \* position of the callback on the slot
    song_data,           \* the song's sample for the slot, if read_nowait gave frames
    sfx_samples,         \* the active effects' samples for the slot, the latest last
    temp_float_sfx_mix,  \* temp_float_sfx_mix[i], a fraction
    outdata,             \* outdata_view[i]
    \* ---- the clocks of the callback, in frame durations
    pa_ts_offset,        \* _pa_ts_offset: None | Some(an integer)
    song_start_time,     \* song_start_time: None | Some(an integer)
    last_read_pts,       \* self.song.last_read_pts: None | Some(a natural number)
    samples_read,        \* samples read so far from the AudioFifo of self.song
    pts_per_sample,      \* pts_per_sample of that AudioFifo: "unset" | "zero" | "one"
    playback_time,       \* the hardware timestamp given to the latest callback
    next_time,           \* the earliest hardware timestamp of the next callback
    cb_frame,            \* what read_nowait gave the callback under way
    steady_time,         \* the timestamp the next callback has if it follows at once a
                         \* callback that mixed a full buffer of this song: None | Some(time)
    \* ---- ManiaGame and the judgement counters of the sidebar
    notes,               \* the GameNote objects of the game, by their index in the beatmap
    pending_notes,       \* pending_notes: indices, the earliest note last
    active_notes,        \* active_notes: indices, in the order of activation
    keys_currently_pressed_lanes,
    game_time,           \* current_game_time(), in ticks
    judgement_vars,      \* sidebar.judgement_vars: the count of each judgement
    counted              \* the increments each note has made to judgement_vars

fileVars == <<fifo, src_pos, container, closing, eof, not_full, enough_samples,
              enough_samples_num, hungry_max, read_lock, loop_set, pending_calls, read_task,
              thread_task, fill_cancel, open_pc, closer, reader, nw>>

playerVars == <<stream, is_playing_song, song, song_lock, sfx_lock, active_sfx, cb,
                cb_raised, load_pc, stop_pc, api, cb_since>>

mixVars == <<mix_pc, song_data, sfx_samples, temp_float_sfx_mix, outdata>>

\* the clock variables that belong to the decoder of self.song
songClockVars == <<last_read_pts, samples_read, pts_per_sample, cb_frame, steady_time>>

clockVars == <<pa_ts_offset, song_start_time, playback_time, next_time, songClockVars>>

gameVars == <<notes, pending_notes, active_notes, keys_currently_pressed_lanes, game_time,
              judgement_vars, counted>>

vars == <<fileVars, playerVars, mixVars, clockVars, gameVars>>

\* an AudioFifo whose read takes the newest frames
FifoDrop_Newest(f, k) == SubSeq(f, 1, Len(f) - k)

\* an AudioFifo whose read leaves the frames in the queue
FifoDrop_Keep(f, k) == f

\* --------------------------------------------------------------- av.AudioFifo
\* av.AudioFifo.read(samples): the number of frames it returns, 0 standing for
\* None.  samples = 0 asks for everything buffered; a request for more than is
\* buffered returns None and takes nothing (partial=False).
FifoReadCount(f, n) ==
    IF Len(f) < 1 THEN 0
    ELSE LET m == IF n = 0 THEN Len(f) ELSE n
         IN  IF Len(f) < m THEN 0 ELSE m

FifoDrop(f, k) == SubSeq(f, k + 1, Len(f))

\* the frames a decode step appends: the next c frames of the stream
Chunk(pos, c) == [i \in 1..c |-> pos + i]

\* No coroutine is in the middle of an event-loop step, and the loop's thread
\* is not blocked in stop_stream (on a lock, or in the close of the stream).
LoopIdle ==
    /\ \A r \in Readers : reader[r].pc # "take"
    /\ load_pc.pc # "created"
    /\ stop_pc \in {"idle", "closing_song"}
    /\ ~(stop_pc = "closing_song" /\ closer["stop"] = "done")

IdleReader == [pc |-> "idle", n |-> 0, attempt |-> 0, res |-> "none"]
IdleNowait == [pc |-> "idle", n |-> 0, res |-> "none"]

NoSongData == [some |-> FALSE, value |-> 0]
NoCall == [op |-> "none", res |-> "ok", since |-> "none"]
IdleCallback == [pc |-> "idle", n |-> 0]
IdleLoad == [pc |-> "idle", play |-> FALSE]
\* Optional values: None is the empty set and a value x is {x}
None == {}
Some(x) == {x}
ValueOf(o) == CHOOSE x \in o : TRUE

\* the callback has no frame of the song in hand
NoFrame == [has |-> FALSE, pts |-> None, cur |-> FALSE]

\* the counters of the sidebar, SettingsSidebar.judgement_vars
Judgements == {"PERFECT", "GREAT", "GOOD", "OK", "MEH", "Miss"}

\* no game has been created: the counters are at 0
NoGame ==
    /\ notes = << >>
    /\ pending_notes = << >>
    /\ active_notes = << >>
    /\ keys_currently_pressed_lanes = {}
    /\ game_time = 0
    /\ judgement_vars = [j \in Judgements |-> 0]
    /\ counted = << >>

\* the class attributes _pa_ts_offset, song_start_time and last_read_pts are
\* None; no callback has run
InitClock ==
    /\ pa_ts_offset = None
    /\ song_start_time = None
    /\ last_read_pts = None
    /\ samples_read = 0
    /\ pts_per_sample = "unset"
    /\ playback_time = 0
    /\ next_time = 0
    /\ cb_frame = NoFrame
    /\ steady_time = None

\* AudioPlayer.__init__
InitControl ==
    /\ InitClock
    /\ NoGame
    /\ stream = "none"
    /\ is_playing_song = FALSE
    /\ song = "none"
    /\ song_lock = "free"
    /\ sfx_lock = "free"
    /\ active_sfx = << >>
    /\ cb = IdleCallback
    /\ cb_raised = FALSE
    /\ load_pc = IdleLoad
    /\ stop_pc = "idle"
    /\ api = NoCall
    /\ cb_since = "none"

\* no callback is computing a slot
InitPlayer ==
    /\ InitControl
    /\ mix_pc = "idle"
    /\ song_data = NoSongData
    /\ sfx_samples = << >>
    /\ temp_float_sfx_mix = [num |-> 0, den |-> 1]
    /\ outdata = zero_val

\* AudioFile.__init__
NewFile ==
    /\ fifo = << >>
    /\ src_pos = 0
    /\ container = "none"
    /\ closing = {}
    /\ eof = FALSE
    /\ not_full = TRUE
    /\ enough_samples = FALSE
    /\ enough_samples_num = 0
    /\ hungry_max = 0
    /\ read_lock = FALSE
    /\ loop_set = FALSE
    /\ pending_calls = 0
    /\ read_task = "none"
    /\ thread_task = "none"
    /\ fill_cancel = FALSE
    /\ open_pc = "idle"
    /\ closer = [c \in Closers |-> "idle"]
    /\ reader = [r \in Readers |-> IdleReader]
    /\ nw = IdleNowait

InitFile == NewFile /\ InitPlayer

\* ------------------------------------------------------------ AudioFile.open
\* open() up to its first suspension: close() of a decoder that has no fill
\* task and no container runs through without suspending (it empties the
\* queue, sets _eof and _enough_samples), then _loop is set and av.open is
\* handed to a worker thread.
DoOpenStart ==
    /\ open_pc = "idle"
    /\ read_task = "none"
    /\ container = "none"
    /\ fifo' = << >>
    /\ eof' = TRUE
    /\ enough_samples' = TRUE
    /\ loop_set' = TRUE
    /\ open_pc' = "opening"
    /\ UNCHANGED <<src_pos, container, closing, not_full, enough_samples_num, hungry_max, read_lock,
                   pending_calls, read_task, thread_task, fill_cancel, closer, reader, nw>>

\* av.open has returned: the container is stored, the state is reset and the
\* fill task is created.
DoOpenFinish ==
    /\ open_pc = "opening"
    /\ LoopIdle
    /\ container' = "open"
    /\ eof' = FALSE
    /\ fifo' = << >>
    /\ read_task' = "created"
    /\ open_pc' = "done"
    /\ UNCHANGED <<src_pos, closing, not_full, enough_samples, enough_samples_num, hungry_max, read_lock,
                   loop_set, pending_calls, thread_task, fill_cancel, closer, reader, nw>>

\* -------------------------------------------------------- AudioFile._fill_fifo
\* The first step of the task: container.decode is handed to a worker thread.
FillStart ==
    /\ read_task = "created"
    /\ ~fill_cancel
    /\ LoopIdle
    /\ read_task' = "iter"
    /\ thread_task' = "running"
    /\ UNCHANGED <<fifo, src_pos, container, closing, eof, not_full, enough_samples,
                   enough_samples_num, hungry_max, read_lock, loop_set, pending_calls, fill_cancel,
                   open_pc, closer, reader, nw>>
    /\ UNCHANGED <<playerVars, mixVars, clockVars, gameVars>>

\* The worker thread finishes the operation _thread_task wraps.
ThreadFinish ==
    /\ thread_task = "running"
    /\ thread_task' = "done"
    /\ UNCHANGED <<fifo, src_pos, container, closing, eof, not_full, enough_samples,
                   enough_samples_num, hungry_max, read_lock, loop_set, pending_calls, read_task,
                   fill_cancel, open_pc, closer, reader, nw>>
    /\ UNCHANGED <<playerVars, mixVars, clockVars, gameVars>>

\* The iterator is there: next(_iter, None) is handed to a worker thread.
FillGotIter ==
    /\ read_task = "iter"
    /\ thread_task = "done"
    /\ ~fill_cancel
    /\ LoopIdle
    /\ read_task' = "next"
    /\ thread_task' = "running"
    /\ UNCHANGED <<fifo, src_pos, container, closing, eof, not_full, enough_samples,
                   enough_samples_num, hungry_max, read_lock, loop_set, pending_calls, fill_cancel,
                   open_pc, closer, reader, nw>>
    /\ UNCHANGED <<playerVars, mixVars, clockVars, gameVars>>

\* the decode step without the wait on _not_full
FillGotFrame_NoGate(c) ==
    /\ read_task = "next"
    /\ thread_task = "done"
    /\ ~fill_cancel
    /\ LoopIdle
    /\ src_pos + c <= SrcLen
    /\ LET f == fifo \o Chunk(src_pos, c)
           hungry == enough_samples_num # 0
           fed == hungry /\ Len(f) >= enough_samples_num
           skip == hungry /\ ~fed    \* continue: read() may want more than the buffer
           wait == FALSE
       IN  /\ fifo' = f
           /\ src_pos' = src_pos + c
           /\ enough_samples' = (enough_samples \/ fed)
           /\ not_full' = IF wait THEN FALSE ELSE not_full
           /\ read_task' = IF wait THEN "gate" ELSE "next"
           /\ thread_task' = IF wait THEN "done" ELSE "running"
    /\ UNCHANGED <<container, closing, eof, enough_samples_num, hungry_max, read_lock, loop_set,
                   pending_calls, fill_cancel, open_pc, closer, reader, nw>>
    /\ UNCHANGED <<playerVars, mixVars, clockVars, gameVars>>

\* A frame was decoded and resampled into c frames: they are written, a hungry
\* reader is fed, and the loop either goes on decoding or waits on _not_full.
FillGotFrame(c) ==
    /\ read_task = "next"
    /\ thread_task = "done"
    /\ ~fill_cancel
    /\ LoopIdle
    /\ src_pos + c <= SrcLen
    /\ LET f == fifo \o Chunk(src_pos, c)
           hungry == enough_samples_num # 0
           fed == hungry /\ Len(f) >= enough_samples_num
           skip == hungry /\ ~fed    \* continue: read() may want more than the buffer
           wait == ~skip /\ Len(f) >= BufferSamples
       IN  /\ fifo' = f
           /\ src_pos' = src_pos + c
           /\ enough_samples' = (enough_samples \/ fed)
           /\ not_full' = IF wait THEN FALSE ELSE not_full
           /\ read_task' = IF wait THEN "gate" ELSE "next"
           /\ thread_task' = IF wait THEN "done" ELSE "running"
    /\ UNCHANGED <<container, closing, eof, enough_samples_num, hungry_max, read_lock, loop_set,
                   pending_calls, fill_cancel, open_pc, closer, reader, nw>>
    /\ UNCHANGED <<playerVars, mixVars, clockVars, gameVars>>

\* next() returned None: the resampler's tail is written, the loop ends and the
\* finally clause runs _cleanup, which closes the container in a worker thread.
FillGotEof ==
    /\ read_task = "next"
    /\ thread_task = "done"
    /\ ~fill_cancel
    /\ LoopIdle
    /\ SrcLen - src_pos <= MaxTail
    /\ fifo' = fifo \o Chunk(src_pos, SrcLen - src_pos)
    /\ src_pos' = SrcLen
    /\ eof' = TRUE
    /\ enough_samples' = TRUE
    /\ IF container # "none"
          THEN /\ closing' = closing \cup {"fill"}
               /\ read_task' = "cleanup"
          ELSE /\ closing' = closing
               /\ read_task' = "done"
    /\ UNCHANGED <<container, not_full, enough_samples_num, hungry_max, read_lock, loop_set,
                   pending_calls, thread_task, fill_cancel, open_pc, closer, reader, nw>>
    /\ UNCHANGED <<playerVars, mixVars, clockVars, gameVars>>

\* _not_full was set while the loop waited: the bound is tested again.
FillGateWake ==
    /\ read_task = "gate"
    /\ not_full
    /\ ~fill_cancel
    /\ LoopIdle
    /\ IF Len(fifo) >= BufferSamples
          THEN /\ not_full' = FALSE
               /\ UNCHANGED <<read_task, thread_task>>
          ELSE /\ read_task' = "next"
               /\ thread_task' = "running"
               /\ UNCHANGED not_full
    /\ UNCHANGED <<fifo, src_pos, container, closing, eof, enough_samples,
                   enough_samples_num, hungry_max, read_lock, loop_set, pending_calls, fill_cancel,
                   open_pc, closer, reader, nw>>
    /\ UNCHANGED <<playerVars, mixVars, clockVars, gameVars>>

\* CancelledError is raised in the task at the await it is suspended on.
\*   not started yet: the task ends without running its body;
\*   in a shielded await: the handler joins a thread operation still running,
\*     otherwise empties the queue, and the finally clause runs _cleanup;
\*   in the handler's join: the join is abandoned and _cleanup runs;
\*   in _cleanup's await: _cleanup is abandoned, self.container stays set.
FillCancelled ==
    /\ fill_cancel
    /\ LoopIdle
    /\ read_task \notin {"none", "done"}
    /\ fill_cancel' = FALSE
    /\ LET joins == read_task \in {"iter", "next"} /\ thread_task = "running"
           ends == read_task \in {"created", "cleanup", "cleanup_c"}
           drain == read_task \in {"iter", "next", "gate"} /\ ~joins
           cleans == ~joins /\ ~ends
       IN  /\ fifo' = IF drain THEN << >> ELSE fifo
           /\ eof' = (eof \/ cleans)
           /\ enough_samples' = (enough_samples \/ cleans)
           /\ closing' = IF cleans /\ container # "none" THEN closing \cup {"fill"} ELSE closing
           /\ read_task' = IF joins THEN "join"
                           ELSE IF ends THEN "done"
                           ELSE IF container # "none" THEN "cleanup_c" ELSE "done"
    /\ UNCHANGED <<src_pos, container, not_full, enough_samples_num, hungry_max, read_lock, loop_set,
                   pending_calls, thread_task, open_pc, closer, reader, nw>>
    /\ UNCHANGED <<playerVars, mixVars, clockVars, gameVars>>

\* The joined thread operation has finished: the handler empties the queue and
\* the finally clause runs _cleanup.
FillJoinDone ==
    /\ read_task = "join"
    /\ thread_task = "done"
    /\ ~fill_cancel
    /\ LoopIdle
    /\ fifo' = << >>
    /\ eof' = TRUE
    /\ enough_samples' = TRUE
    /\ IF container # "none"
          THEN /\ closing' = closing \cup {"fill"}
               /\ read_task' = "cleanup_c"
          ELSE /\ closing' = closing
               /\ read_task' = "done"
    /\ UNCHANGED <<src_pos, container, not_full, enough_samples_num, hungry_max, read_lock, loop_set,
                   pending_calls, thread_task, fill_cancel, open_pc, closer, reader, nw>>
    /\ UNCHANGED <<playerVars, mixVars, clockVars, gameVars>>

\* A worker thread finishes container.close().
CloseThreadFinish(o) ==
    /\ o \in closing
    /\ closing' = closing \ {o}
    /\ UNCHANGED <<fifo, src_pos, container, eof, not_full, enough_samples,
                   enough_samples_num, hungry_max, read_lock, loop_set, pending_calls, read_task,
                   thread_task, fill_cancel, open_pc, closer, reader, nw>>
    /\ UNCHANGED <<playerVars, mixVars, clockVars, gameVars>>

\* _cleanup of the fill task resumes: self.container = None, the task is done.
FillCleanupDone ==
    /\ read_task \in {"cleanup", "cleanup_c"}
    /\ "fill" \notin closing
    /\ ~fill_cancel
    /\ LoopIdle
    /\ container' = "none"
    /\ read_task' = "done"
    /\ UNCHANGED <<fifo, src_pos, closing, eof, not_full, enough_samples,
                   enough_samples_num, hungry_max, read_lock, loop_set, pending_calls, thread_task,
                   fill_cancel, open_pc, closer, reader, nw>>
    /\ UNCHANGED <<playerVars, mixVars, clockVars, gameVars>>

\* The event loop runs a callback queued by call_soon_threadsafe: _not_full.set()
LoopRunSet ==
    /\ pending_calls > 0
    /\ LoopIdle
    /\ pending_calls' = pending_calls - 1
    /\ not_full' = TRUE
    /\ UNCHANGED <<fifo, src_pos, container, closing, eof, enough_samples,
                   enough_samples_num, hungry_max, read_lock, loop_set, read_task, thread_task,
                   fill_cancel, open_pc, closer, reader, nw>>
    /\ UNCHANGED <<playerVars, mixVars, clockVars, gameVars>>

\* --------------------------------------------------------------- AudioFile.read
\* What a read() caller is left with when the call has returned.
Returned(r, res) == [reader EXCEPT ![r] = [pc |-> "idle", n |-> 0, attempt |-> 0, res |-> res]]

\* One pass of the for loop of read(), entered with the lock free and
\* _enough_samples_num = 0: enough buffered -> _not_full.set() and go on to the
\* read of the queue; end of stream -> everything left; otherwise register as
\* the hungry reader and wait on _enough_samples holding _read_lock.
ReadAttempt(r, n, k) ==
    IF Len(fifo) >= n
    THEN /\ not_full' = TRUE
         /\ reader' = [reader EXCEPT ![r] = [pc |-> "take", n |-> n, attempt |-> k, res |-> "none"]]
         /\ enough_samples_num' = 0
         /\ read_lock' = FALSE
         /\ UNCHANGED <<fifo, enough_samples, hungry_max>>
    ELSE IF eof
    THEN /\ fifo' = FifoDrop(fifo, FifoReadCount(fifo, 0))
         /\ reader' = Returned(r, "ok")
         /\ enough_samples_num' = 0
         /\ read_lock' = FALSE
         /\ UNCHANGED <<not_full, enough_samples, hungry_max>>
    ELSE /\ enough_samples_num' = n
         /\ hungry_max' = Max(hungry_max, n)
         /\ enough_samples' = FALSE
         /\ read_lock' = TRUE
         /\ reader' = [reader EXCEPT ![r] = [pc |-> "wait", n |-> n, attempt |-> k, res |-> "none"]]
         /\ UNCHANGED <<fifo, not_full>>

\* read(n) without the test of _read_lock.locked()
ReadCall_NoLockCheck(r, n) ==
    /\ reader[r].pc = "idle"
    /\ LoopIdle
    /\ open_pc = "done"
    /\ IF FALSE
       THEN /\ reader' = Returned(r, "Busy")
            /\ UNCHANGED <<fifo, not_full, enough_samples, enough_samples_num, hungry_max, read_lock>>
       ELSE IF n <= 0
       THEN /\ reader' = Returned(r, "ValueError")
            /\ UNCHANGED <<fifo, not_full, enough_samples, enough_samples_num, hungry_max, read_lock>>
       ELSE ReadAttempt(r, n, 1)
    /\ UNCHANGED <<src_pos, container, closing, eof, loop_set, pending_calls, read_task,
                   thread_task, fill_cancel, open_pc, closer, nw>>
    /\ UNCHANGED <<playerVars, mixVars, clockVars, gameVars>>

\* read(n) is called: RuntimeError when a read is in progress, ValueError when
\* n is not positive, otherwise the first pass of the loop.
ReadCall(r, n) ==
    /\ reader[r].pc = "idle"
    /\ LoopIdle
    /\ open_pc = "done"
    /\ IF read_lock
       THEN /\ reader' = Returned(r, "Busy")
            /\ UNCHANGED <<fifo, not_full, enough_samples, enough_samples_num, hungry_max, read_lock>>
       ELSE IF n <= 0
       THEN /\ reader' = Returned(r, "ValueError")
            /\ UNCHANGED <<fifo, not_full, enough_samples, enough_samples_num, hungry_max, read_lock>>
       ELSE ReadAttempt(r, n, 1)
    /\ UNCHANGED <<src_pos, container, closing, eof, loop_set, pending_calls, read_task,
                   thread_task, fill_cancel, open_pc, closer, nw>>
    /\ UNCHANGED <<playerVars, mixVars, clockVars, gameVars>>

\* return self._frame_to_array(self._fifo.read(samples)), the queue having held
\* at least n frames when it was tested.
ReadTake(r) ==
    /\ reader[r].pc = "take"
    /\ fifo' = FifoDrop(fifo, FifoReadCount(fifo, reader[r].n))
    /\ reader' = Returned(r, "ok")
    /\ UNCHANGED <<src_pos, container, closing, eof, not_full, enough_samples,
                   enough_samples_num, hungry_max, read_lock, loop_set, pending_calls, read_task,
                   thread_task, fill_cancel, open_pc, closer, nw>>
    /\ UNCHANGED <<playerVars, mixVars, clockVars, gameVars>>

\* _enough_samples was set while read() waited: the lock is released,
\* _enough_samples_num reset, and the loop makes its second pass or, after the
\* second wait, ends in the internal error.
ReadResume(r) ==
    /\ reader[r].pc = "wait"
    /\ enough_samples
    /\ LoopIdle
    /\ IF reader[r].attempt = 1
       THEN ReadAttempt(r, reader[r].n, 2)
       ELSE /\ reader' = Returned(r, "InternalError")
            /\ enough_samples_num' = 0
            /\ read_lock' = FALSE
            /\ UNCHANGED <<fifo, not_full, enough_samples, hungry_max>>
    /\ UNCHANGED <<src_pos, container, closing, eof, loop_set, pending_calls, read_task,
                   thread_task, fill_cancel, open_pc, closer, nw>>
    /\ UNCHANGED <<playerVars, mixVars, clockVars, gameVars>>

\* -------------------------------------------------------- AudioFile.read_nowait
\* self._loop.call_soon_threadsafe(self._not_full.set): a callback is queued on
\* the loop (the cap MaxPending bounds the queue of the model).
DoNowaitCall(n) ==
    /\ nw.pc = "idle"
    /\ pending_calls < MaxPending
    /\ pending_calls' = pending_calls + 1
    /\ nw' = [pc |-> "test", n |-> n, res |-> "none"]
    /\ UNCHANGED <<fifo, src_pos, container, closing, eof, not_full, enough_samples,
                   enough_samples_num, hungry_max, read_lock, loop_set, read_task, thread_task,
                   fill_cancel, open_pc, closer, reader>>

\* ... if self._fifo.samples >= samples else None
DoNowaitTest ==
    /\ nw.pc = "test"
    /\ nw' = IF Len(fifo) >= nw.n
             THEN [nw EXCEPT !.pc = "read"]
             ELSE [pc |-> "idle", n |-> 0, res |-> "None"]
    /\ UNCHANGED <<fifo, src_pos, container, closing, eof, not_full, enough_samples,
                   enough_samples_num, hungry_max, read_lock, loop_set, pending_calls, read_task,
                   thread_task, fill_cancel, open_pc, closer, reader>>

\* self._frame_to_array(self._fifo.read(samples))
DoNowaitRead ==
    /\ nw.pc = "read"
    /\ fifo' = FifoDrop(fifo, FifoReadCount(fifo, nw.n))
    /\ nw' = [pc |-> "idle", n |-> 0,
              res |-> IF FifoReadCount(fifo, nw.n) > 0 THEN "frames" ELSE "None"]
    /\ UNCHANGED <<src_pos, container, closing, eof, not_full, enough_samples,
                   enough_samples_num, hungry_max, read_lock, loop_set, pending_calls, read_task,
                   thread_task, fill_cancel, open_pc, closer, reader>>

\* -------------------------------------------------------------- AudioFile.close
\* close() without its self._fifo.read()
CloseTail_NoDrain(c) ==
    /\ fifo' = fifo
    /\ eof' = TRUE
    /\ enough_samples' = TRUE
    /\ IF container # "none"
          THEN /\ closing' = closing \cup {c}
               /\ closer' = [closer EXCEPT ![c] = "cleanup"]
          ELSE /\ closing' = closing
               /\ closer' = [closer EXCEPT ![c] = "done"]

\* self._fifo.read(); await self._cleanup()
CloseTail(c) ==
    /\ fifo' = << >>
    /\ eof' = TRUE
    /\ enough_samples' = TRUE
    /\ IF container # "none"
          THEN /\ closing' = closing \cup {c}
               /\ closer' = [closer EXCEPT ![c] = "cleanup"]
          ELSE /\ closing' = closing
               /\ closer' = [closer EXCEPT ![c] = "done"]

\* close() is called: a fill task that is not done is cancelled and awaited,
\* otherwise the queue is emptied and _cleanup runs.
DoCloseCall(c) ==
    /\ closer[c] \in {"idle", "done"}
    /\ LoopIdle
    /\ open_pc # "opening"
    /\ IF read_task \notin {"none", "done"}
          THEN /\ fill_cancel' = TRUE
               /\ closer' = [closer EXCEPT ![c] = "join"]
               /\ UNCHANGED <<fifo, eof, enough_samples, closing>>
          ELSE /\ CloseTail(c)
               /\ UNCHANGED fill_cancel
    /\ UNCHANGED <<src_pos, container, not_full, enough_samples_num, hungry_max, read_lock, loop_set,
                   pending_calls, read_task, thread_task, open_pc, reader, nw>>

\* The fill task has ended: close() goes on.
CloseJoined(c) ==
    /\ closer[c] = "join"
    /\ read_task = "done"
    /\ LoopIdle
    /\ CloseTail(c)
    /\ UNCHANGED <<src_pos, container, not_full, enough_samples_num, hungry_max, read_lock, loop_set,
                   pending_calls, read_task, thread_task, fill_cancel, open_pc, reader, nw>>
    /\ UNCHANGED <<playerVars, mixVars, clockVars, gameVars>>

\* _cleanup of close() resumes: self.container = self.audio_stream = None
CloseCleanupDone(c) ==
    /\ closer[c] = "cleanup"
    /\ c \notin closing
    /\ LoopIdle
    /\ container' = "none"
    /\ closer' = [closer EXCEPT ![c] = "done"]
    /\ UNCHANGED <<fifo, src_pos, closing, eof, not_full, enough_samples,
                   enough_samples_num, hungry_max, read_lock, loop_set, pending_calls, read_task,
                   thread_task, fill_cancel, open_pc, reader, nw>>
    /\ UNCHANGED <<playerVars, mixVars, clockVars, gameVars>>

\* ================================================================ AudioPlayer
\* The record of a call of the mixer's API: resume_song is "resume" after a
\* call of another operation and "resume_again" after a resume_song, and the
\* latter keeps what the callbacks between the two calls did; every other call is
\* "other".
Called(op, res) ==
    [op |-> op, res |-> res, since |-> IF op = "resume_again" THEN cb_since ELSE "none"]

\* start_stream: nothing when the stream is active; otherwise the stream is
\* created and started, or the exception of a failed start is caught and
\* _stream is None.
DoStartStream(ok) ==
    /\ LoopIdle
    /\ stream' = IF stream = "active" \/ ok THEN "active" ELSE "none"
    /\ UNCHANGED <<is_playing_song, song, song_lock, sfx_lock, active_sfx, cb, cb_raised,
                   load_pc, stop_pc>>
    /\ UNCHANGED fileVars
    /\ UNCHANGED <<mixVars, clockVars, gameVars>>

StartStream(ok) ==
    /\ DoStartStream(ok)
    /\ api' = Called("other", "ok")
    /\ cb_since' = "none"

\* resume_song without its third assertion
ResumeSong_NoPlayingCheck ==
    /\ LoopIdle
    /\ IF stream = "active" /\ song # "none"
          THEN /\ is_playing_song' = TRUE
               /\ api' = Called(IF api.op \in {"resume", "resume_again"}
                                   THEN "resume_again" ELSE "resume", "ok")
          ELSE /\ UNCHANGED is_playing_song
               /\ api' = Called(IF api.op \in {"resume", "resume_again"}
                                   THEN "resume_again" ELSE "resume", "AssertionError")
    /\ cb_since' = "none"
    /\ UNCHANGED <<stream, song, song_lock, sfx_lock, active_sfx, cb, cb_raised,
                   load_pc, stop_pc>>
    /\ UNCHANGED fileVars
    /\ UNCHANGED <<mixVars, clockVars, gameVars>>

\* resume_song: its three assertions, then is_playing_song = True
ResumeSong ==
    /\ LoopIdle
    /\ IF stream = "active" /\ song # "none" /\ ~is_playing_song
          THEN /\ is_playing_song' = TRUE
               /\ api' = Called(IF api.op \in {"resume", "resume_again"}
                                   THEN "resume_again" ELSE "resume", "ok")
          ELSE /\ UNCHANGED is_playing_song
               /\ api' = Called(IF api.op \in {"resume", "resume_again"}
                                   THEN "resume_again" ELSE "resume", "AssertionError")
    /\ cb_since' = "none"
    /\ UNCHANGED <<stream, song, song_lock, sfx_lock, active_sfx, cb, cb_raised,
                   load_pc, stop_pc>>
    /\ UNCHANGED fileVars
    /\ UNCHANGED <<mixVars, clockVars, gameVars>>

\* play_sound_effect without its test of the stream
DoPlaySoundEffect_NoActiveCheck(len, t) ==
    /\ LoopIdle
    /\ IF len = 0
          THEN UNCHANGED active_sfx
          ELSE /\ sfx_lock = "free"
               /\ Len(active_sfx) < MaxSfx
               /\ \A i \in 1..Len(active_sfx) : active_sfx[i].t <= t
               /\ active_sfx' = Append(active_sfx, [len |-> len, pos |-> 0, t |-> t])
    /\ UNCHANGED <<stream, is_playing_song, song, song_lock, sfx_lock, cb, cb_raised,
                   load_pc, stop_pc>>
    /\ UNCHANGED fileVars
    /\ UNCHANGED <<mixVars, clockVars, gameVars>>

\* play_sound_effect: dropped when the stream is not active or the payload is
\* empty, otherwise (sfx_data, 0, time.time()) is appended under _sfx_lock.  The
\* clock has not gone back since the latest effect was triggered; it may not
\* have advanced.
DoPlaySoundEffect(len, t) ==
    /\ LoopIdle
    /\ IF stream # "active" \/ len = 0
          THEN UNCHANGED active_sfx
          ELSE /\ sfx_lock = "free"
               /\ Len(active_sfx) < MaxSfx
               /\ \A i \in 1..Len(active_sfx) : active_sfx[i].t <= t
               /\ active_sfx' = Append(active_sfx, [len |-> len, pos |-> 0, t |-> t])
    /\ UNCHANGED <<stream, is_playing_song, song, song_lock, sfx_lock, cb, cb_raised,
                   load_pc, stop_pc>>
    /\ UNCHANGED fileVars
    /\ UNCHANGED <<mixVars, clockVars, gameVars>>

PlaySoundEffect(len, t) ==
    /\ DoPlaySoundEffect(len, t)
    /\ api' = Called("other", "ok")
    /\ cb_since' = "none"

\* load_song, up to self.song = AudioFile(song): the mixer's song is a new
\* decoder, with a new queue and no last_read_pts.  A read_nowait the callback
\* is in the middle of goes on, on the decoder that was replaced, and a frame
\* the callback has in hand is a frame of that decoder.
LoadCall(play) ==
    /\ LoopIdle
    /\ load_pc.pc = "idle"
    /\ stop_pc = "idle"
    /\ song' = "set"
    /\ load_pc' = [pc |-> "created", play |-> play]
    /\ fifo' = << >>
    /\ src_pos' = 0
    /\ container' = "none"
    /\ closing' = {}
    /\ eof' = FALSE
    /\ not_full' = TRUE
    /\ enough_samples' = FALSE
    /\ enough_samples_num' = 0
    /\ hungry_max' = 0
    /\ read_lock' = FALSE
    /\ loop_set' = FALSE
    /\ pending_calls' = 0
    /\ read_task' = "none"
    /\ thread_task' = "none"
    /\ fill_cancel' = FALSE
    /\ open_pc' = "idle"
    /\ closer' = [c \in Closers |-> "idle"]
    /\ nw' = IF nw.pc = "idle" THEN IdleNowait ELSE [nw EXCEPT !.pc = "replaced"]
    /\ api' = Called("other", "ok")
    /\ cb_since' = "none"
    /\ last_read_pts' = None
    /\ samples_read' = 0
    /\ pts_per_sample' = "unset"
    /\ cb_frame' = [cb_frame EXCEPT !.cur = FALSE]
    /\ steady_time' = None
    /\ UNCHANGED <<stream, is_playing_song, song_lock, sfx_lock, active_sfx, cb, cb_raised,
                   stop_pc, reader>>
    /\ UNCHANGED <<mixVars, pa_ts_offset, song_start_time, playback_time, next_time>>
    /\ UNCHANGED gameVars

\* load_song goes on into open(), up to the av.open handed to a worker thread
LoadOpenStart ==
    /\ load_pc.pc = "created"
    /\ DoOpenStart
    /\ load_pc' = [load_pc EXCEPT !.pc = "opening"]
    /\ UNCHANGED <<stream, is_playing_song, song, song_lock, sfx_lock, active_sfx, cb,
                   cb_raised, stop_pc, api, cb_since>>
    /\ UNCHANGED <<mixVars, clockVars, gameVars>>

\* open() has returned: if play_now and self._stream and self._stream.active
LoadOpenFinish ==
    /\ load_pc.pc = "opening"
    /\ DoOpenFinish
    /\ load_pc' = IdleLoad
    /\ is_playing_song' = IF load_pc.play /\ stream = "active" THEN TRUE ELSE is_playing_song
    /\ UNCHANGED <<stream, song, song_lock, sfx_lock, active_sfx, cb, cb_raised, stop_pc,
                   api, cb_since>>
    /\ UNCHANGED <<mixVars, clockVars, gameVars>>

\* stop_stream is called: await self.song.close(), an AttributeError when no
\* song was ever loaded.
StopCall ==
    /\ stop_pc = "idle"
    /\ load_pc.pc = "idle"
    /\ LoopIdle
    /\ IF song = "none"
          THEN /\ api' = Called("other", "AttributeError")
               /\ UNCHANGED <<stop_pc, fileVars>>
          ELSE /\ DoCloseCall("stop")
               /\ stop_pc' = "closing_song"
               /\ api' = Called("other", "ok")
    /\ cb_since' = "none"
    /\ UNCHANGED <<stream, is_playing_song, song, song_lock, sfx_lock, active_sfx, cb,
                   cb_raised, load_pc>>
    /\ UNCHANGED <<mixVars, clockVars, gameVars>>

\* close() has returned: if self._stream is not None and self._stream.active
StopAfterClose ==
    /\ stop_pc = "closing_song"
    /\ closer["stop"] = "done"
    /\ stop_pc' = IF stream = "active" THEN "lock_song" ELSE "idle"
    /\ closer' = [closer EXCEPT !["stop"] = "idle"]
    /\ UNCHANGED <<fifo, src_pos, container, closing, eof, not_full, enough_samples,
                   enough_samples_num, hungry_max, read_lock, loop_set, pending_calls, read_task,
                   thread_task, fill_cancel, open_pc, reader, nw>>
    /\ UNCHANGED <<stream, is_playing_song, song, song_lock, sfx_lock, active_sfx, cb,
                   cb_raised, load_pc, api, cb_since>>
    /\ UNCHANGED <<mixVars, clockVars, gameVars>>

\* with self._song_reading_lock, ...
StopLockSong ==
    /\ stop_pc = "lock_song"
    /\ song_lock = "free"
    /\ song_lock' = "stop"
    /\ stop_pc' = "lock_sfx"
    /\ UNCHANGED <<stream, is_playing_song, song, sfx_lock, active_sfx, cb, cb_raised,
                   load_pc, api, cb_since>>
    /\ UNCHANGED fileVars
    /\ UNCHANGED <<mixVars, clockVars, gameVars>>

\* ... self._sfx_lock: is_playing_song = False, _active_sfx.clear(), and
\* self._stream.close() begins
StopLockSfx ==
    /\ stop_pc = "lock_sfx"
    /\ sfx_lock = "free"
    /\ sfx_lock' = "stop"
    /\ is_playing_song' = FALSE
    /\ active_sfx' = << >>
    /\ stop_pc' = "stream_close"
    /\ UNCHANGED <<stream, song, song_lock, cb, cb_raised, load_pc, api, cb_since>>
    /\ UNCHANGED fileVars
    /\ UNCHANGED <<mixVars, clockVars, gameVars>>

\* self._stream.close() returns, which it does once no callback is running;
\* the locks are released and _stream = None.
StopStreamClosed ==
    /\ stop_pc = "stream_close"
    /\ cb.pc = "idle"
    /\ stream' = "none"
    /\ song_lock' = "free"
    /\ sfx_lock' = "free"
    /\ stop_pc' = "idle"
    /\ UNCHANGED <<is_playing_song, song, active_sfx, cb, cb_raised, load_pc, api, cb_since>>
    /\ UNCHANGED fileVars
    /\ UNCHANGED <<mixVars, clockVars, gameVars>>

\* ------------------------------------------------- AudioPlayer._audio_callback
\* The effects part of the callback on the cursors: every active effect
\* advances by min(samples, frames left); the effects that have reached their
\* end are collected and the deque is rebuilt without the items whose trigger
\* time is that of a collected one.
SfxFramesToRead(e, n) == Min(n, e.len - e.pos)

SfxFinished(sfx, n) ==
    {i \in 1..Len(sfx) : sfx[i].pos + SfxFramesToRead(sfx[i], n) >= sfx[i].len}

SfxAdvance(sfx, n) ==
    LET moved == [i \in 1..Len(sfx) |->
                    [sfx[i] EXCEPT !.pos = sfx[i].pos + Max(0, SfxFramesToRead(sfx[i], n))]]
        finished_sfx_times == {sfx[i].t : i \in SfxFinished(sfx, n)}
        Kept(e) == e.t \notin finished_sfx_times
    IN  SelectSeq(moved, Kept)

\* what a callback that does not end the song leaves in cb_since
CbRan == IF cb_since = "ended" THEN "ended" ELSE "ran"

\* PortAudio calls the callback for n frames.  It calls it while the stream is
\* active, and not once the close of the stream has begun.
CbEnter(n) ==
    /\ cb.pc = "idle"
    /\ stream = "active"
    /\ stop_pc # "stream_close"
    /\ pending_calls < MaxPending
    /\ cb' = [pc |-> "song", n |-> n]
    /\ UNCHANGED <<stream, is_playing_song, song, song_lock, sfx_lock, active_sfx,
                   cb_raised, load_pc, stop_pc, api, cb_since>>
    /\ UNCHANGED fileVars
    /\ UNCHANGED <<mixVars, clockVars, gameVars>>

\* The callback takes _song_reading_lock, which it waits for at cb.pc = "song".
\* No song, or a song that is not playing: song_data is None, and
\* is_playing_song is cleared when the song's container is None.
CbSongSilent ==
    /\ cb.pc = "song"
    /\ song_lock = "free"
    /\ song = "none" \/ ~is_playing_song
    /\ song_lock' = "free"
    /\ cb' = [cb EXCEPT !.pc = "sfx"]
    /\ is_playing_song' = IF song # "none" /\ container = "none" THEN FALSE ELSE is_playing_song
    /\ UNCHANGED <<stream, song, sfx_lock, active_sfx, cb_raised, load_pc, stop_pc, api>>
    /\ cb_since' = CbRan
    /\ UNCHANGED fileVars
    /\ UNCHANGED <<mixVars, clockVars, gameVars>>

\* song_data = self.song.read_nowait(samples), up to the callback queued on
\* the loop.
CbSongRead ==
    /\ cb.pc = "song"
    /\ song_lock = "free"
    /\ song # "none" /\ is_playing_song
    /\ loop_set
    /\ DoNowaitCall(cb.n)
    /\ song_lock' = "cb"
    /\ cb' = [cb EXCEPT !.pc = "nowait"]
    /\ UNCHANGED <<stream, is_playing_song, song, sfx_lock, active_sfx,
                   cb_raised, load_pc, stop_pc, api, cb_since>>
    /\ UNCHANGED <<mixVars, clockVars, gameVars>>

\* self._loop is None in read_nowait: the AttributeError is not the
\* RuntimeError read_nowait catches, nothing in the callback catches it, the
\* with statement releases the lock and the exception reaches the backend,
\* which aborts the stream.
CbSongRaise ==
    /\ cb.pc = "song"
    /\ song_lock = "free"
    /\ song # "none" /\ is_playing_song
    /\ ~loop_set
    /\ song_lock' = "free"
    /\ cb' = IdleCallback
    /\ cb_raised' = TRUE
    /\ stream' = "aborted"
    /\ UNCHANGED <<is_playing_song, song, sfx_lock, active_sfx, load_pc, stop_pc, api>>
    /\ cb_since' = CbRan
    /\ UNCHANGED fileVars
    /\ UNCHANGED <<mixVars, clockVars, gameVars>>
CbNowaitTest ==
    /\ cb.pc = "nowait"
    /\ DoNowaitTest
    /\ UNCHANGED <<playerVars, mixVars, clockVars, gameVars>>

CbNowaitRead ==
    /\ cb.pc = "nowait"
    /\ DoNowaitRead
    /\ UNCHANGED <<playerVars, mixVars, clockVars, gameVars>>

\* The read_nowait under way is on a decoder load_song has replaced: whether
\* that decoder has the frames is not a matter of the state of the new one.
CbNowaitReplaced(res) ==
    /\ cb.pc = "nowait"
    /\ nw.pc = "replaced"
    /\ nw' = [pc |-> "idle", n |-> 0, res |-> res]
    /\ UNCHANGED <<fifo, src_pos, container, closing, eof, not_full, enough_samples,
                   enough_samples_num, hungry_max, read_lock, loop_set, pending_calls, read_task,
                   thread_task, fill_cancel, open_pc, closer, reader>>
    /\ UNCHANGED <<playerVars, mixVars, clockVars, gameVars>>

\* read_nowait has returned.  None: is_playing_song is cleared when the
\* container of self.song is None.  Frames: they are mixed at half amplitude.
CbSongDone ==
    /\ cb.pc = "nowait"
    /\ nw.pc = "idle"
    /\ song_lock' = "free"
    /\ cb' = [cb EXCEPT !.pc = "sfx"]
    /\ is_playing_song' = IF nw.res = "None" /\ container = "none" THEN FALSE ELSE is_playing_song
    /\ cb_since' = IF is_playing_song /\ nw.res = "None" /\ container = "none"
                      THEN "ended" ELSE CbRan
    /\ nw' = IdleNowait
    /\ UNCHANGED <<fifo, src_pos, container, closing, eof, not_full, enough_samples,
                   enough_samples_num, hungry_max, read_lock, loop_set, pending_calls, read_task,
                   thread_task, fill_cancel, open_pc, closer, reader>>
    /\ UNCHANGED <<stream, song, sfx_lock, active_sfx, cb_raised, load_pc, stop_pc, api>>
    /\ UNCHANGED <<mixVars, clockVars, gameVars>>

\* The callback takes _sfx_lock, which it waits for at cb.pc = "sfx": the
\* effects are mixed, the lock is released, the buffer is summed and clipped
\* and the callback returns.
CbSfx ==
    /\ cb.pc = "sfx"
    /\ sfx_lock = "free"
    /\ active_sfx' = SfxAdvance(active_sfx, cb.n)
    /\ sfx_lock' = "free"
    /\ cb' = IdleCallback
    /\ UNCHANGED <<stream, is_playing_song, song, song_lock, cb_raised, load_pc, stop_pc,
                   api, cb_since>>
    /\ UNCHANGED fileVars
    /\ UNCHANGED <<mixVars, clockVars, gameVars>>

\* ------------------------------------- _audio_callback: the samples it writes
\* One slot i of the output buffer through the callback, in the s16 format.
\* The arithmetic on the effects is exact where the program's is in floats.
\* a clip that moves an out-of-range sample one step towards the range
_clip_sample_one_step(sample) ==
    IF sample > max_val THEN sample - 1
    ELSE IF sample < min_val THEN sample + 1
    ELSE sample

_clip_sample_no_max(sample) ==
    IF sample < min_val THEN min_val ELSE sample

_clip_sample(sample) ==
    IF sample > max_val THEN max_val
    ELSE IF sample < min_val THEN min_val
    ELSE sample

\* int() of the fraction a / b, b > 0: towards zero
IntOf(a, b) == IF a >= 0 THEN a \div b ELSE -((-a) \div b)

RECURSIVE SumSeq(_)
SumSeq(q) == IF q = << >> THEN 0 ELSE Head(q) + SumSeq(Tail(q))

\* the effects' part of slot i with every other effect at 0.1, unshared
SfxMix_NoShare(q) ==
    IF q = << >> THEN [num |-> 0, den |-> 1]
    ELSE [num |-> 6 * q[Len(q)] + SumSeq(SubSeq(q, 1, Len(q) - 1)), den |-> 10 * SfxDen]

\* The effects' part of slot i: the latest effect at 0.6, the others at
\* 0.1 / num_other_sfx each, as a fraction of samples in units of 1/SfxDen.
SfxMix(q) ==
    IF q = << >> THEN [num |-> 0, den |-> 1]
    ELSE LET num_other_sfx == Len(q) - 1
             latest == q[Len(q)]
             others == SumSeq(SubSeq(q, 1, num_other_sfx))
         IN  IF num_other_sfx = 0
                THEN [num |-> 6 * latest, den |-> 10 * SfxDen]
                ELSE [num |-> 6 * latest * num_other_sfx + others,
                      den |-> 10 * num_other_sfx * SfxDen]

\* the samples _clip_sample is tried on by itself: around both ends of the
\* s16 range, around zero and far outside
ClipSamples ==
    {3 * min_val, min_val - 2, min_val - 1, min_val, min_val + 1, -1, 0, 1,
     max_val - 1, max_val, max_val + 1, max_val + 2, 3 * max_val}

\* the song samples tried: the ends of the s16 range and the values around zero
SongSamples == {min_val, min_val + 1, -1, 0, 1, max_val}

SfxSampleSeqs ==
    UNION {[1..k -> (-SfxDen)..SfxDen] : k \in 0..MaxMixSfx}

\* 1. the buffer is filled with silence
MixEnter ==
    /\ mix_pc = "enter"
    /\ temp_float_sfx_mix' = [num |-> 0, den |-> 1]
    /\ outdata' = zero_val
    /\ mix_pc' = "song"
    /\ UNCHANGED <<song_data, sfx_samples>>
    /\ UNCHANGED <<fileVars, playerVars, clockVars, gameVars>>

\* 2. outdata_view[i] = sample_value // 2
MixSong ==
    /\ mix_pc = "song"
    /\ outdata' = IF song_data.some THEN song_data.value \div 2 ELSE outdata
    /\ mix_pc' = "sfx"
    /\ UNCHANGED <<song_data, sfx_samples, temp_float_sfx_mix>>
    /\ UNCHANGED <<fileVars, playerVars, clockVars, gameVars>>

\* 3. the effects are accumulated in temp_float_sfx_mix
MixSfx ==
    /\ mix_pc = "sfx"
    /\ temp_float_sfx_mix' = SfxMix(sfx_samples)
    /\ mix_pc' = "sum"
    /\ UNCHANGED <<song_data, sfx_samples, outdata>>
    /\ UNCHANGED <<fileVars, playerVars, clockVars, gameVars>>

\* outdata_view[i] = _clip_sample(int(outdata_view[i] + temp_float_sfx_mix[i] * max_val))
MixSum ==
    /\ mix_pc = "sum"
    /\ outdata' = _clip_sample(IntOf(outdata * temp_float_sfx_mix.den
                                       + temp_float_sfx_mix.num * max_val,
                                     temp_float_sfx_mix.den))
    /\ mix_pc' = "clip"
    /\ UNCHANGED <<song_data, sfx_samples, temp_float_sfx_mix>>
    /\ UNCHANGED <<fileVars, playerVars, clockVars, gameVars>>

\* 4. outdata_view[i] = _clip_sample(outdata_view[i])
MixFinalClip ==
    /\ mix_pc = "clip"
    /\ outdata' = _clip_sample(outdata)
    /\ mix_pc' = "done"
    /\ UNCHANGED <<song_data, sfx_samples, temp_float_sfx_mix>>
    /\ UNCHANGED <<fileVars, playerVars, clockVars, gameVars>>

MixNext ==
    \/ MixEnter
    \/ MixSong
    \/ MixSfx
    \/ MixSum
    \/ MixFinalClip

\* A callback is entered: read_nowait has given the song's sample for the slot
\* or nothing, and up to MaxMixSfx effects are active, each with a sample in
\* [-1, 1] for the slot.
InitMix ==
    /\ NewFile
    /\ InitControl
    /\ mix_pc = "enter"
    /\ song_data \in {NoSongData} \cup {[some |-> TRUE, value |-> v] : v \in SongSamples}
    /\ sfx_samples \in SfxSampleSeqs
    /\ temp_float_sfx_mix = [num |-> 0, den |-> 1]
    /\ outdata = zero_val

SpecMix == InitMix /\ [][MixNext]_vars

\* ------------------------------------------------------ the mixer and its song
\* The mixer's API called in any order from the event loop, the callback on
\* the audio thread, and the fill task of the song.  The effects triggered are
\* empty or one frame long, all at one reading of the clock.
PlayerNext ==
    \/ \E ok \in BOOLEAN : StartStream(ok)
    \/ ResumeSong
    \/ \E len \in 0..1 : PlaySoundEffect(len, 0)
    \/ \E play \in BOOLEAN : LoadCall(play)
    \/ LoadOpenStart
    \/ LoadOpenFinish
    \/ StopCall
    \/ CloseJoined("stop")
    \/ CloseCleanupDone("stop")
    \/ StopAfterClose
    \/ StopLockSong
    \/ StopLockSfx
    \/ StopStreamClosed
    \/ \E n \in 1..MaxNowait : CbEnter(n)
    \/ CbSongSilent
    \/ CbSongRead
    \/ CbSongRaise
    \/ CbNowaitTest
    \/ CbNowaitRead
    \/ \E res \in {"None", "frames"} : CbNowaitReplaced(res)
    \/ CbSongDone
    \/ CbSfx
    \/ FillStart
    \/ ThreadFinish
    \/ FillGotIter
    \/ \E c \in 1..MaxChunk : FillGotFrame(c)
    \/ FillGotEof
    \/ FillGateWake
    \/ FillCancelled
    \/ FillJoinDone
    \/ \E o \in {"fill"} \cup Closers : CloseThreadFinish(o)
    \/ FillCleanupDone
    \/ LoopRunSet

SpecPlayer == InitFile /\ [][PlayerNext]_vars

\* ------------------------------------------- load_song, awaited by its caller
\* resume_song is called by the task that loads the songs, between two loads.
SeqResumeSong == load_pc.pc = "idle" /\ ResumeSong

\* A mixer whose stream is started and whose songs are loaded and resumed by
\* one task, which awaits each load_song, with the callbacks of the audio
\* thread and the fill task of the decoder.
LoadNext ==
    \/ \E ok \in BOOLEAN : StartStream(ok)
    \/ SeqResumeSong
    \/ \E play \in BOOLEAN : LoadCall(play)
    \/ LoadOpenStart
    \/ LoadOpenFinish
    \/ \E n \in 1..MaxNowait : CbEnter(n)
    \/ CbSongSilent
    \/ CbSongRead
    \/ CbSongRaise
    \/ CbNowaitTest
    \/ CbNowaitRead
    \/ \E res \in {"None", "frames"} : CbNowaitReplaced(res)
    \/ CbSongDone
    \/ CbSfx
    \/ FillStart
    \/ ThreadFinish
    \/ FillGotIter
    \/ \E c \in 1..MaxChunk : FillGotFrame(c)
    \/ FillGotEof
    \/ FillGateWake
    \/ CloseThreadFinish("fill")
    \/ FillCleanupDone
    \/ LoopRunSet

SpecLoad == InitFile /\ [][LoadNext]_vars

\* ------------------------------------------------- the decoder on its own
\* One AudioFile, opened once and left open: the fill task, read() callers on
\* the event loop and a realtime thread calling read_nowait().
\* open(), read_nowait() and close() called on an AudioFile of its own
OpenStart == LoopIdle /\ DoOpenStart /\ UNCHANGED <<playerVars, mixVars, clockVars, gameVars>>

OpenFinish == DoOpenFinish /\ UNCHANGED <<playerVars, mixVars, clockVars, gameVars>>

NowaitCall(n) == open_pc = "done" /\ DoNowaitCall(n) /\ UNCHANGED <<playerVars, mixVars, clockVars, gameVars>>

NowaitTest == DoNowaitTest /\ UNCHANGED <<playerVars, mixVars, clockVars, gameVars>>

NowaitRead == DoNowaitRead /\ UNCHANGED <<playerVars, mixVars, clockVars, gameVars>>

\* The callers of read() are alike: the one that calls is the first that has
\* no read in progress.
NextReadCall(r, n) ==
    /\ \A q \in Readers : q < r => reader[q].pc # "idle"
    /\ ReadCall(r, n)

\* read_nowait is called the way the mixer calls it, for a positive number of
\* frames
FileNext ==
    \/ OpenStart
    \/ OpenFinish
    \/ FillStart
    \/ ThreadFinish
    \/ FillGotIter
    \/ \E c \in 1..MaxChunk : FillGotFrame(c)
    \/ FillGotEof
    \/ FillGateWake
    \/ CloseThreadFinish("fill")
    \/ FillCleanupDone
    \/ LoopRunSet
    \/ \E r \in Readers, n \in 0..MaxRead : NextReadCall(r, n)
    \/ \E r \in Readers : ReadTake(r)
    \/ \E r \in Readers : ReadResume(r)
    \/ \E n \in 1..MaxNowait : NowaitCall(n)
    \/ NowaitTest
    \/ NowaitRead

\* read_nowait is called with any number of frames
FileNextAny ==
    \/ FileNext
    \/ NowaitCall(0)

SpecFileAny == InitFile /\ [][FileNextAny]_vars

SpecFile == InitFile /\ [][FileNext]_vars

\* What close() leaves behind: the fill task finished (or never created), the
\* queue empty, self.container None and _eof set.
ClosedState ==
    /\ read_task \in {"none", "done"}
    /\ fifo = << >>
    /\ container = "none"
    /\ eof

\* The state of the decoder apart from the position of the callers of close().
DecoderState ==
    <<fifo, src_pos, container, closing, eof, not_full, enough_samples, enough_samples_num,
      read_lock, loop_set, pending_calls, read_task, thread_task, fill_cancel, open_pc>>

\* ------------------------------------------------- AudioFile.open, again
\* The audio streams a source may hold
StreamCounts == {0, 1, 2}

\* open() is called on an AudioFile by a caller that awaits each of its calls:
\* it starts with await self.close().
ReopenCall ==
    /\ open_pc \in {"idle", "done", "failed"}
    /\ closer["main"] \in {"idle", "done"}
    /\ LoopIdle
    /\ open_pc' = "closing"
    /\ IF read_task \notin {"none", "done"}
          THEN /\ fill_cancel' = TRUE
               /\ closer' = [closer EXCEPT !["main"] = "join"]
               /\ UNCHANGED <<fifo, eof, enough_samples, closing>>
          ELSE /\ CloseTail("main")
               /\ UNCHANGED fill_cancel
    /\ UNCHANGED <<src_pos, container, not_full, enough_samples_num, hungry_max, read_lock,
                   loop_set, pending_calls, read_task, thread_task, reader, nw>>
    /\ UNCHANGED <<playerVars, mixVars, clockVars, gameVars>>

\* close() has returned to open(): av.open is handed to a worker thread.
ReopenAvOpen ==
    /\ open_pc = "closing"
    /\ closer["main"] = "done"
    /\ LoopIdle
    /\ open_pc' = "opening"
    /\ loop_set' = TRUE
    /\ UNCHANGED <<fifo, src_pos, container, closing, eof, not_full, enough_samples,
                   enough_samples_num, hungry_max, read_lock, pending_calls, read_task,
                   thread_task, fill_cancel, closer, reader, nw>>
    /\ UNCHANGED <<playerVars, mixVars, clockVars, gameVars>>

\* an open() that does not count the audio streams
ReopenFinish_NoCount(k) ==
    /\ open_pc = "opening"
    /\ LoopIdle
    /\ container' = IF k = 1 THEN "open" ELSE "other"
    /\ eof' = FALSE
    /\ fifo' = << >>
    /\ src_pos' = 0
    /\ read_task' = "created"
    /\ open_pc' = "done"
    /\ UNCHANGED <<closing, not_full, enough_samples, enough_samples_num, hungry_max, read_lock,
                   loop_set, pending_calls, thread_task, fill_cancel, closer, reader, nw>>
    /\ UNCHANGED <<playerVars, mixVars, clockVars, gameVars>>

\* av.open has returned a container with k audio streams ("other": not one),
\* which is stored.  k # 1 raises ValueError; otherwise the state is reset and
\* the fill task is created, on a stream decoded from its start.
ReopenFinish(k) ==
    /\ open_pc = "opening"
    /\ LoopIdle
    /\ container' = IF k = 1 THEN "open" ELSE "other"
    /\ IF k = 1
          THEN /\ eof' = FALSE
               /\ fifo' = << >>
               /\ src_pos' = 0
               /\ read_task' = "created"
               /\ open_pc' = "done"
          ELSE /\ open_pc' = "failed"
               /\ UNCHANGED <<eof, fifo, src_pos, read_task>>
    /\ UNCHANGED <<closing, not_full, enough_samples, enough_samples_num, hungry_max, read_lock,
                   loop_set, pending_calls, thread_task, fill_cancel, closer, reader, nw>>
    /\ UNCHANGED <<playerVars, mixVars, clockVars, gameVars>>

\* close() is called by that caller, between two of its calls.
SeqCloseCall ==
    /\ open_pc \in {"idle", "done", "failed"}
    /\ DoCloseCall("main")
    /\ UNCHANGED <<playerVars, mixVars, clockVars, gameVars>>

\* One AudioFile and one caller that opens and closes it again and again, each
\* call awaited before the next, with the fill task and a realtime thread
\* calling read_nowait().
OpenNext ==
    \/ ReopenCall
    \/ ReopenAvOpen
    \/ \E k \in StreamCounts : ReopenFinish(k)
    \/ SeqCloseCall
    \/ CloseJoined("main")
    \/ CloseCleanupDone("main")
    \/ \E o \in {"fill", "main"} : CloseThreadFinish(o)
    \/ FillStart
    \/ ThreadFinish
    \/ FillGotIter
    \/ \E c \in 1..MaxChunk : FillGotFrame(c)
    \/ FillGotEof
    \/ FillGateWake
    \/ FillCancelled
    \/ FillJoinDone
    \/ FillCleanupDone
    \/ LoopRunSet
    \/ \E n \in 1..MaxNowait : NowaitCall(n)
    \/ NowaitTest
    \/ NowaitRead

SpecOpen == InitFile /\ [][OpenNext]_vars

\* ================================================================== ManiaGame
TAP_NOTE == "TAP"
HOLD_NOTE_BODY == "HOLD_BODY"

Lanes == {0, 1}

\* head_hit_error and tail_release_error are None
NoError == -1

\* od_judgement_windows_s, in ticks
od_judgement_windows_s ==
    [PERFECT |-> 0, GREAT |-> 1, GOOD |-> 2, OK |-> 3, MEH |-> 4, MISS |-> 5]

no_effect_early_press_offset_s == -od_judgement_windows_s.MISS
auto_miss_if_unhit_offset_s == od_judgement_windows_s.OK

\* note_activation_lead_time, in ticks
note_activation_lead_time == 3

Abs(x) == IF x >= 0 THEN x ELSE -x

\* GameNote.__init__ for the i-th hit object
NewNote(i, lane, type) ==
    [lane |-> lane, note_type |-> type, hit_time |-> i * NoteGap,
     end_time |-> IF type = HOLD_NOTE_BODY THEN i * NoteGap + HoldLen ELSE 0,
     is_judged |-> FALSE, judgement_result |-> "none",
     head_hit_error |-> NoError, tail_release_error |-> NoError,
     is_holding |-> FALSE, is_head_hit_successfully |-> FALSE, broken_hold |-> FALSE]

\* GameNote._finalize_judgement
_finalize_judgement(n, judgement) ==
    IF n.is_judged THEN n
    ELSE [n EXCEPT !.is_judged = TRUE, !.judgement_result = judgement]

\* GameNote.judge_hold_head_hit
judge_hold_head_hit(n, head_error_abs, head_judgement) ==
    IF n.is_judged \/ n.is_head_hit_successfully THEN n
    ELSE LET m == [n EXCEPT !.head_hit_error = head_error_abs,
                            !.is_head_hit_successfully = (head_judgement # "Miss"),
                            !.is_holding = (head_judgement # "Miss")]
         IN  IF head_judgement = "Miss" THEN _finalize_judgement(m, "Miss") ELSE m

\* the judgement of a press abs_error away from the hit time: the first of the
\* windows other than MISS, in increasing order, that holds it, or "Miss"
PressJudgement(abs_error) ==
    LET w == od_judgement_windows_s
    IN  IF abs_error <= w.PERFECT THEN "PERFECT"
        ELSE IF abs_error <= w.GREAT THEN "GREAT"
        ELSE IF abs_error <= w.GOOD THEN "GOOD"
        ELSE IF abs_error <= w.OK THEN "OK"
        ELSE IF abs_error <= w.MEH THEN "MEH"
        ELSE "Miss"

\* the first note of active_notes that satisfies P, 0 when there is none
RECURSIVE FirstActive(_, _)
FirstActive(q, ok) ==
    IF q = << >> THEN 0
    ELSE IF Head(q) \in ok THEN Head(q)
    ELSE FirstActive(Tail(q), ok)

\* app.update_judgement_count(judgement) on behalf of note i; "none": no call
Counted(c, i, judgement) ==
    IF judgement = "none" THEN c ELSE [c EXCEPT ![i] = c[i] + 1]

JudgementVars(v, judgement) ==
    IF judgement \in Judgements THEN [v EXCEPT ![judgement] = v[judgement] + 1] ELSE v

\* ManiaGame._judge_completed_hold_note: the note afterwards (n) and the
\* judgement counted (j), "none" when update_judgement_count is not called
_judge_completed_hold_note(n0) ==
    IF n0.is_judged \/ ~n0.is_head_hit_successfully THEN [n |-> n0, j |-> "none"]
    ELSE IF n0.head_hit_error = NoError
    THEN [n |-> _finalize_judgement(n0, "Miss"), j |-> "none"]
    ELSE LET w == od_judgement_windows_s
             n1 == IF n0.tail_release_error = NoError
                   THEN [n0 EXCEPT !.tail_release_error = w.MISS, !.broken_hold = TRUE]
                   ELSE n0
             h == n1.head_hit_error
             ce == n1.head_hit_error + n1.tail_release_error
             \* the factors 1.2, 2.4, 1.1 and 2.2 in tenths
             by_error == IF 10 * h <= 12 * w.PERFECT /\ 10 * ce <= 24 * w.PERFECT THEN "PERFECT"
                         ELSE IF 10 * h <= 11 * w.GREAT /\ 10 * ce <= 22 * w.GREAT THEN "GREAT"
                         ELSE IF h <= w.GOOD /\ ce <= 2 * w.GOOD THEN "GOOD"
                         ELSE IF h <= w.OK /\ ce <= 2 * w.OK THEN "OK"
                         ELSE "MEH"
             final_judgement == IF n1.broken_hold /\ by_error # "MEH" THEN "MEH" ELSE by_error
         IN  [n |-> _finalize_judgement(n1, final_judgement), j |-> final_judgement]

\* ManiaGame.__init__ and _create_notes: the notes of the beatmap, taps and
\* holds in the lanes, pending with the earliest last; the billboard is reset.
CreateGame(lane, type) ==
    /\ notes = << >>
    /\ notes' = [i \in 1..NumNotes |-> NewNote(i, lane[i], type[i])]
    /\ pending_notes' = [k \in 1..NumNotes |-> NumNotes + 1 - k]
    /\ active_notes' = << >>
    /\ keys_currently_pressed_lanes' = {}
    /\ game_time' = 0
    /\ judgement_vars' = [j \in Judgements |-> 0]
    /\ counted' = [i \in 1..NumNotes |-> 0]
    /\ UNCHANGED <<fileVars, playerVars, mixVars, clockVars>>

\* the clock of the game goes on
GameTick ==
    /\ notes # << >>
    /\ game_time < MaxGameTime
    /\ game_time' = game_time + 1
    /\ UNCHANGED <<notes, pending_notes, active_notes, keys_currently_pressed_lanes,
                   judgement_vars, counted>>
    /\ UNCHANGED <<fileVars, playerVars, mixVars, clockVars>>

\* _on_key_press and _process_press: the key of a lane that is not held goes
\* down at game_time.
KeyPress(lane) ==
    /\ notes # << >>
    /\ lane \notin keys_currently_pressed_lanes
    /\ keys_currently_pressed_lanes' = keys_currently_pressed_lanes \cup {lane}
    /\ LET best_note == FirstActive(active_notes,
                           {i \in 1..NumNotes :
                               /\ notes[i].lane = lane
                               /\ ~notes[i].is_judged
                               /\ ~(notes[i].note_type = HOLD_NOTE_BODY
                                    /\ notes[i].is_head_hit_successfully)})
           time_diff == game_time - notes[best_note].hit_time
           judgement == PressJudgement(Abs(time_diff))
       IN  IF best_note = 0
              THEN UNCHANGED <<notes, judgement_vars, counted>>
           ELSE IF ~(no_effect_early_press_offset_s <= time_diff
                     /\ time_diff <= od_judgement_windows_s.MISS)
              THEN UNCHANGED <<notes, judgement_vars, counted>>
           ELSE /\ judgement_vars' = JudgementVars(judgement_vars, judgement)
                /\ counted' = Counted(counted, best_note, judgement)
                /\ notes' = [notes EXCEPT ![best_note] =
                                IF notes[best_note].note_type = TAP_NOTE
                                THEN _finalize_judgement(notes[best_note], judgement)
                                ELSE judge_hold_head_hit(notes[best_note], Abs(time_diff),
                                                         judgement)]
    /\ UNCHANGED <<pending_notes, active_notes, game_time>>
    /\ UNCHANGED <<fileVars, playerVars, mixVars, clockVars>>

\* _on_key_release and _process_release: the key of a lane goes up at game_time.
KeyRelease(lane) ==
    /\ notes # << >>
    /\ lane \in keys_currently_pressed_lanes
    /\ keys_currently_pressed_lanes' = keys_currently_pressed_lanes \ {lane}
    /\ LET note == FirstActive(active_notes,
                      {i \in 1..NumNotes :
                          /\ notes[i].lane = lane
                          /\ notes[i].note_type = HOLD_NOTE_BODY
                          /\ notes[i].is_head_hit_successfully
                          /\ notes[i].is_holding
                          /\ ~notes[i].is_judged})
           w == od_judgement_windows_s
           tail_diff == game_time - notes[note].end_time
           early == game_time < notes[note].end_time - w.MEH
           released == [notes[note] EXCEPT
                          !.is_holding = FALSE,
                          !.tail_release_error =
                              IF Abs(tail_diff) <= w.MISS THEN Abs(tail_diff) ELSE w.MISS + 1,
                          !.broken_hold =
                              (notes[note].broken_hold \/ early \/ Abs(tail_diff) > w.MISS)]
           judged == _judge_completed_hold_note(released)
       IN  IF note = 0
              THEN UNCHANGED <<notes, judgement_vars, counted>>
              ELSE /\ notes' = [notes EXCEPT ![note] = judged.n]
                   /\ judgement_vars' = JudgementVars(judgement_vars, judged.j)
                   /\ counted' = Counted(counted, note, judged.j)
    /\ UNCHANGED <<pending_notes, active_notes, game_time>>
    /\ UNCHANGED <<fileVars, playerVars, mixVars, clockVars>>

\* what update_notes does with an active note: the note afterwards and the
\* judgement counted for it
UpdatedNote(n0) ==
    LET w == od_judgement_windows_s
        is_head_miss == \/ n0.note_type = TAP_NOTE
                        \/ n0.note_type = HOLD_NOTE_BODY /\ ~n0.is_head_hit_successfully
        let_go == n0.is_holding /\ n0.lane \notin keys_currently_pressed_lanes
        n1 == IF let_go
              THEN [n0 EXCEPT !.broken_hold = (n0.broken_hold \/ game_time < n0.end_time - w.MEH),
                              !.is_holding = FALSE]
              ELSE n0
    IN  IF n0.is_judged THEN [n |-> n0, j |-> "none"]
        ELSE IF is_head_miss /\ game_time > n0.hit_time + auto_miss_if_unhit_offset_s
        THEN [n |-> _finalize_judgement(n0, "Miss"), j |-> "Miss"]
        ELSE IF n0.note_type = HOLD_NOTE_BODY /\ n0.is_head_hit_successfully
        THEN IF game_time > n0.end_time + auto_miss_if_unhit_offset_s
             THEN _judge_completed_hold_note(n1)
             ELSE [n |-> n1, j |-> "none"]
        ELSE [n |-> n0, j |-> "none"]

\* the indices of q whose notes are not judged in ns, in the order of q
RECURSIVE Unjudged(_, _)
Unjudged(q, ns) ==
    IF q = << >> THEN << >>
    ELSE IF ns[Head(q)].is_judged THEN Unjudged(Tail(q), ns)
    ELSE <<Head(q)>> \o Unjudged(Tail(q), ns)

\* the pending notes update_notes activates at game_time, in their order, and
\* the ones it leaves
RECURSIVE Activated(_)
Activated(q) ==
    IF q # << >> /\ notes[q[Len(q)]].hit_time <= game_time + note_activation_lead_time
    THEN <<q[Len(q)]>> \o Activated(SubSeq(q, 1, Len(q) - 1))
    ELSE << >>

\* the judgement_vars after the increments of the notes of q
RECURSIVE CountAll(_, _, _)
CountAll(v, q, upd) ==
    IF q = << >> THEN v
    ELSE CountAll(JudgementVars(v, upd[Head(q)].j), Tail(q), upd)

\* ManiaGame.update_notes(game_time)
UpdateNotes ==
    /\ notes # << >>
    /\ LET entering == Activated(pending_notes)
           active == active_notes \o entering
           on == {active[k] : k \in 1..Len(active)}
           upd == [i \in 1..NumNotes |->
                      IF i \in on THEN UpdatedNote(notes[i]) ELSE [n |-> notes[i], j |-> "none"]]
       IN  /\ pending_notes' = SubSeq(pending_notes, 1, Len(pending_notes) - Len(entering))
           /\ notes' = [i \in 1..NumNotes |-> upd[i].n]
           /\ active_notes' = Unjudged(active, notes')
           /\ judgement_vars' = CountAll(judgement_vars, active, upd)
           /\ counted' = [i \in 1..NumNotes |-> IF upd[i].j = "none" THEN counted[i]
                                                ELSE counted[i] + 1]
    /\ UNCHANGED <<keys_currently_pressed_lanes, game_time>>
    /\ UNCHANGED <<fileVars, playerVars, mixVars, clockVars>>

\* One game: its notes are created, the clock goes on, keys go down and up and
\* the game loop calls update_notes.
GameNext ==
    \/ \E lane \in [1..NumNotes -> Lanes], type \in [1..NumNotes -> {TAP_NOTE, HOLD_NOTE_BODY}] :
          CreateGame(lane, type)
    \/ GameTick
    \/ \E lane \in Lanes : KeyPress(lane)
    \/ \E lane \in Lanes : KeyRelease(lane)
    \/ UpdateNotes

SpecGame == InitFile /\ [][GameNext]_vars

\* ------------------------------------------- the clocks of the callback
\* The offset the first callback stores: time.perf_counter() - playback_time,
\* which is d, or 0 when 0 <= d < 0.001 s.
PaTsOffset(d) == IF 0 <= d /\ d < MsTicks THEN 0 ELSE d

\* a callback that computes _pa_ts_offset every time
ClockCbEnter_Recompute(n, t, d) ==
    /\ cb.pc = "idle"
    /\ stream = "active"
    /\ stop_pc # "stream_close"
    /\ t >= next_time /\ t <= next_time + MaxGap /\ t + n <= MaxClock
    /\ cb' = [pc |-> "song", n |-> n]
    /\ playback_time' = t
    /\ next_time' = t + n
    /\ pa_ts_offset' = Some(PaTsOffset(d))
    /\ cb_frame' = NoFrame
    /\ UNCHANGED <<song_start_time, last_read_pts, samples_read, pts_per_sample, steady_time>>
    /\ UNCHANGED <<stream, is_playing_song, song, song_lock, sfx_lock, active_sfx,
                   cb_raised, load_pc, stop_pc, api, cb_since>>
    /\ UNCHANGED <<fileVars, mixVars, gameVars>>

\* The callback is entered for n frames with the hardware timestamp t, which
\* is the end of the buffer before or up to MaxGap later, d being
\* time.perf_counter() - t: _pa_ts_offset is computed when it is None.
ClockCbEnter(n, t, d) ==
    /\ cb.pc = "idle"
    /\ stream = "active"
    /\ stop_pc # "stream_close"
    /\ t >= next_time /\ t <= next_time + MaxGap /\ t + n <= MaxClock
    /\ pa_ts_offset # None => d = 0
    /\ cb' = [pc |-> "song", n |-> n]
    /\ playback_time' = t
    /\ next_time' = t + n
    /\ pa_ts_offset' = IF pa_ts_offset = None THEN Some(PaTsOffset(d)) ELSE pa_ts_offset
    /\ cb_frame' = NoFrame
    /\ UNCHANGED <<song_start_time, last_read_pts, samples_read, pts_per_sample, steady_time>>
    /\ UNCHANGED <<stream, is_playing_song, song, song_lock, sfx_lock, active_sfx,
                   cb_raised, load_pc, stop_pc, api, cb_since>>
    /\ UNCHANGED <<fileVars, mixVars, gameVars>>

\* song_data = self.song.read_nowait(samples), the decoder taken for what it
\* returns: None, or (got) a frame of samples frames, which an opened decoder
\* with its container open may have in its queue.  AudioFifo.read stamps the
\* frame with pts_per_sample * samples_read ("one": the time base of the
\* frames is a frame duration), or with no pts when pts_per_sample is 0,
\* which the first frame written has decided (tb), and _frame_to_array stores
\* the frame's pts in last_read_pts.
ClockCbSongRead(got, tb) ==
    /\ cb.pc = "song"
    /\ song_lock = "free"
    /\ song # "none" /\ is_playing_song
    /\ loop_set
    /\ got => (open_pc = "done" /\ container = "open")
    /\ tb = IF got /\ pts_per_sample = "unset" THEN tb ELSE pts_per_sample
    /\ got => tb # "unset"
    /\ song_lock' = "cb"
    /\ cb' = [cb EXCEPT !.pc = "nowait"]
    /\ IF got
          THEN /\ pts_per_sample' = tb
               /\ last_read_pts' = IF tb = "one" THEN Some(samples_read) ELSE None
               /\ samples_read' = samples_read + cb.n
               /\ cb_frame' = [has |-> TRUE,
                               pts |-> IF tb = "one" THEN Some(samples_read) ELSE None,
                               cur |-> TRUE]
          ELSE UNCHANGED <<pts_per_sample, last_read_pts, samples_read, cb_frame>>
    /\ UNCHANGED <<pa_ts_offset, song_start_time, playback_time, next_time, steady_time>>
    /\ UNCHANGED <<stream, is_playing_song, song, sfx_lock, active_sfx,
                   cb_raised, load_pc, stop_pc, api, cb_since>>
    /\ UNCHANGED <<fileVars, mixVars, gameVars>>

\* the callback's song_start_time without the timestamp of the frame
SongStartTime_NoPts(pts) ==
    IF pts # None THEN Some(playback_time + ValueOf(pa_ts_offset)) ELSE None

\* self.song_start_time = playback_time + self._pa_ts_offset - pts, or None
SongStartTime(pts) ==
    IF pts # None THEN Some(playback_time + ValueOf(pa_ts_offset) - ValueOf(pts)) ELSE None

\* read_nowait has returned.  None: is_playing_song is cleared when the
\* container of self.song is None.  A frame: song_start_time is computed from
\* the last_read_pts of self.song, and the frame is mixed.
ClockCbSongDone ==
    /\ cb.pc = "nowait"
    /\ song_lock' = "free"
    /\ cb' = [cb EXCEPT !.pc = "sfx"]
    /\ IF cb_frame.has
          THEN /\ song_start_time' = SongStartTime(last_read_pts)
               /\ steady_time' = IF cb_frame.cur THEN Some(next_time) ELSE None
               /\ UNCHANGED is_playing_song
               /\ cb_since' = CbRan
          ELSE /\ is_playing_song' = IF container = "none" THEN FALSE ELSE is_playing_song
               /\ cb_since' = IF is_playing_song /\ container = "none" THEN "ended" ELSE CbRan
               /\ steady_time' = None
               /\ UNCHANGED song_start_time
    /\ cb_frame' = NoFrame
    /\ UNCHANGED <<pa_ts_offset, last_read_pts, samples_read, pts_per_sample,
                   playback_time, next_time>>
    /\ UNCHANGED <<stream, song, sfx_lock, active_sfx, cb_raised, load_pc, stop_pc, api>>
    /\ UNCHANGED <<fileVars, mixVars, gameVars>>

\* The mixer with its song and the clocks of its callbacks: the stream is
\* started and stopped, songs are loaded and resumed, and callbacks run with
\* hardware timestamps that do not go back.
ClockNext ==
    \/ \E ok \in BOOLEAN : StartStream(ok)
    \/ ResumeSong
    \/ \E play \in BOOLEAN : LoadCall(play)
    \/ LoadOpenStart
    \/ LoadOpenFinish
    \/ StopCall
    \/ FillCancelled
    \/ CloseJoined("stop")
    \/ CloseThreadFinish("stop")
    \/ CloseCleanupDone("stop")
    \/ StopAfterClose
    \/ StopLockSong
    \/ StopLockSfx
    \/ StopStreamClosed
    \/ \E n \in 1..MaxNowait, t \in 0..MaxClock, d \in (-OffMax)..OffMax : ClockCbEnter(n, t, d)
    \/ CbSongSilent
    \/ CbSongRaise
    \/ \E got \in BOOLEAN, tb \in {"unset", "zero", "one"} : ClockCbSongRead(got, tb)
    \/ ClockCbSongDone
    \/ CbSfx

SpecClock == InitFile /\ [][ClockNext]_vars

\* ------------------------------------------- the mixer and its effects
\* A mixer with no song loaded: the stream is started, effects of 0 to
\* MaxSfxLen frames are triggered and callbacks mix them.  The record of the
\* calls tells them apart: a start_stream whose hardware stream failed to open
\* is "start_failed", another one is "start", play_sound_effect is "sfx", or
\* "sfx_empty" when its payload is empty.
SfxStartStream(ok) ==
    /\ DoStartStream(ok)
    /\ api' = Called(IF stream = "active" \/ ok THEN "start" ELSE "start_failed", "ok")
    /\ cb_since' = "none"

SfxPlaySoundEffect(len, t) ==
    /\ DoPlaySoundEffect(len, t)
    /\ api' = Called(IF len = 0 THEN "sfx_empty" ELSE "sfx", "ok")
    /\ cb_since' = "none"

SfxNext ==
    \/ \E ok \in BOOLEAN : SfxStartStream(ok)
    \/ \E len \in 0..MaxSfxLen, t \in 0..MaxTime : SfxPlaySoundEffect(len, t)
    \/ \E n \in 1..MaxNowait : CbEnter(n)
    \/ CbSongSilent
    \/ CbSfx

SpecSfx == InitFile /\ [][SfxNext]_vars

\* ------------------------------------------- the decoder and its closers
\* close() called on the decoder by stop_stream: the app calls stop_stream from
\* the game runner's cleanup ("stop") and from the main loop's cancellation
\* handler ("main"), and the two calls can overlap.
CloseCall(c) == DoCloseCall(c) /\ UNCHANGED <<playerVars, mixVars, clockVars, gameVars>>

\* One AudioFile, opened once, its fill task, a realtime thread calling
\* read_nowait() and two callers of close().
CloseNext ==
    \/ OpenStart
    \/ OpenFinish
    \/ FillStart
    \/ ThreadFinish
    \/ FillGotIter
    \/ \E c \in 1..MaxChunk : FillGotFrame(c)
    \/ FillGotEof
    \/ FillGateWake
    \/ FillCancelled
    \/ FillJoinDone
    \/ \E o \in {"fill"} \cup Closers : CloseThreadFinish(o)
    \/ FillCleanupDone
    \/ LoopRunSet
    \/ \E n \in 1..MaxNowait : NowaitCall(n)
    \/ NowaitTest
    \/ NowaitRead
    \/ \E c \in Closers : CloseCall(c)
    \/ \E c \in Closers : CloseJoined(c)
    \/ \E c \in Closers : CloseCleanupDone(c)

SpecClose == InitFile /\ [][CloseNext]_vars

\* C1: read_nowait(n) returns exactly n frames or nothing: when fewer than n
\* frames are buffered it returns nothing and leaves the queue alone, when at
\* least n are buffered it takes exactly n.
C1_NowaitExactOrNothing ==
    [][/\ (nw.pc = "test" /\ nw'.pc = "idle")
            => (Len(fifo) < nw.n /\ fifo' = fifo /\ nw'.res = "None")
       /\ (nw.pc = "read" /\ nw'.pc = "idle")
            => /\ Len(fifo) - Len(fifo') \in {0, nw.n}
               /\ (Len(fifo) >= nw.n => Len(fifo) - Len(fifo') = nw.n)
               /\ (nw'.res = "None" <=> fifo' = fifo)]_vars

\* C2 as claimed: the queue never holds more than buffer_samples plus one
\* decode chunk.
C2_QueueWithinBuffer == Len(fifo) <= BufferSamples + MaxChunk

\* C2 as amended: the queue never holds more than one decode chunk above the
\* larger of buffer_samples and the largest sample count a blocking read has
\* waited for on the decoder.
C2_QueueWithinBufferOrRequest ==
    Len(fifo) <= Max(BufferSamples, hungry_max) + MaxChunk

\* the gate has been active and a read larger than the buffer has let the
\* queue grow beyond buffer_samples plus one chunk
C2_Witness ==
    /\ Len(fifo) > BufferSamples + MaxChunk
    /\ hungry_max > BufferSamples
    /\ read_task = "gate"
    /\ src_pos < SrcLen

\* C3: no state is reachable in which a read() waits for more samples while the
\* fill loop waits on the backpressure gate and nothing on the loop is left to
\* release either.
C3_NoReaderFillDeadlock ==
    ~ /\ \E r \in Readers : reader[r].pc = "wait"
      /\ ~enough_samples
      /\ read_task = "gate"
      /\ ~not_full
      /\ pending_calls = 0
      /\ nw.pc = "idle"

\* C4: a read(n) that returns has delivered exactly n frames, or the end of the
\* stream was reached and it has delivered all that was left; it never ends in
\* the internal error.
C4_ReadDelivers ==
    [][\A r \in Readers :
        /\ reader'[r].res # "InternalError"
        /\ (reader[r].pc = "take" /\ reader'[r].pc = "idle")
             => \/ Len(fifo) - Len(fifo') = reader[r].n
                \/ (eof /\ fifo' = << >>)]_vars

\* C10: at most one read() is suspended, and a read() issued while another one
\* waits fails at once and changes neither the queue nor the waiting reader's
\* request.
C10_SecondReadFails ==
    /\ [](Cardinality({r \in Readers : reader[r].pc = "wait"}) <= 1)
    /\ [][\A r \in Readers :
            (/\ reader[r].pc = "idle"
             /\ reader'[r] # reader[r]
             /\ \E q \in Readers \ {r} : reader[q].pc = "wait")
            => /\ reader'[r].pc = "idle"
               /\ reader'[r].res = "Busy"
               /\ fifo' = fifo
               /\ enough_samples_num' = enough_samples_num
               /\ \A q \in Readers \ {r} : reader'[q] = reader[q]]_vars

\* a read() was refused while the other reader waits
C10_Witness ==
    \E r, q \in Readers : reader[r].res = "Busy" /\ reader[q].pc = "wait"
                          /\ enough_samples_num = reader[q].n

\* C5: stop_stream always completes: no state is reachable in which
\* stop_stream, holding _song_reading_lock and _sfx_lock, waits for the stream
\* to close while the callback in flight waits for one of the two locks.
C5_StopNeverBlocksCallback ==
    ~(/\ stop_pc = "stream_close"
      /\ song_lock = "stop" /\ sfx_lock = "stop"
      /\ cb.pc \in {"song", "sfx"})

\* C6: the callback never lets an exception out to the backend, also when it
\* runs with is_playing_song true on a decoder load_song has just created.
C6_CallbackNeverRaises == ~cb_raised

\* C7: every sample the callback writes to the output buffer is within
\* min_val..max_val of the format, for every song sample and every number of
\* active effects with samples in [-1, 1].
C7_OutputWithinFormat == min_val <= outdata /\ outdata <= max_val

\* The song at full scale and MaxMixSfx effects at full scale: the sum is over
\* max_val and the sample written is max_val.
C7_Witness ==
    /\ mix_pc = "done"
    /\ song_data.some /\ song_data.value = max_val
    /\ Len(sfx_samples) = MaxMixSfx
    /\ \A i \in 1..Len(sfx_samples) : sfx_samples[i] = SfxDen
    /\ outdata = max_val

\* C8: resume_song fails with the assertion error and changes nothing of the
\* mixer or its decoder when the stream is not active, no song is loaded or a
\* song is playing; otherwise it sets is_playing_song and changes nothing else.
C8_ResumeContract ==
    [][(/\ api'.op \in {"resume", "resume_again"}
        /\ api' # api \/ (cb_since # "none" /\ cb_since' = "none")) =>
          IF stream # "active" \/ song = "none" \/ is_playing_song
             THEN /\ api'.res = "AssertionError"
                  /\ UNCHANGED <<stream, is_playing_song, song, song_lock, sfx_lock,
                                 active_sfx, cb, cb_raised, load_pc, stop_pc>>
                  /\ UNCHANGED fileVars
             ELSE /\ api'.res = "ok"
                  /\ is_playing_song' = TRUE
                  /\ UNCHANGED <<stream, song, song_lock, sfx_lock, active_sfx, cb,
                                 cb_raised, load_pc, stop_pc>>
                  /\ UNCHANGED fileVars]_vars

\* resume_song has failed on a song that is playing, on an active stream
C8_Witness ==
    /\ api.op = "resume" /\ api.res = "AssertionError"
    /\ stream = "active" /\ song = "set" /\ is_playing_song

\* C9 as stated: the second of two resume_song calls in a row fails, whatever
\* callbacks ran between the two.
C9_SecondResumeFails ==
    [][(/\ api'.op = "resume_again"
        /\ api' # api \/ (cb_since # "none" /\ cb_since' = "none"))
          => api'.res = "AssertionError"]_vars

\* C9, amended: the second of two resume_song calls in a row fails unless a
\* callback between the two has found the song at its end and cleared
\* is_playing_song.
C9_SecondResumeFailsUnlessEnded ==
    [][(/\ api'.op = "resume_again"
        /\ api' # api \/ (cb_since # "none" /\ cb_since' = "none")
        /\ cb_since # "ended")
          => api'.res = "AssertionError"]_vars

\* the second call has failed on an active stream, callbacks having run
\* between the two calls
C9_Witness ==
    /\ api.op = "resume_again" /\ api.res = "AssertionError" /\ api.since = "ran"
    /\ stream = "active" /\ is_playing_song

\* C11: the callback clears is_playing_song only as the song-ended signal:
\* only when the decoder of the loaded song has been opened and has decoded
\* its whole source, and fewer frames than requested are buffered.
C11_ClearedOnlyAtSongEnd ==
    [][(/\ cb.pc \in {"song", "nowait"} /\ cb' # cb
        /\ is_playing_song /\ ~is_playing_song')
          => (open_pc = "done" /\ src_pos = SrcLen /\ Len(fifo) < cb.n)]_vars

\* C12: underrun handling: the song is playing, read_nowait finds fewer frames
\* than requested in the queue and the decoder has not reached end-of-stream:
\* the song part of the callback ends without raising, with no song frames
\* (silence), the queue untouched and is_playing_song still true.
C12_UnderrunKeepsPlaying ==
    [][(/\ song # "none" /\ is_playing_song /\ ~eof /\ Len(fifo) < cb.n
        /\ \/ cb.pc = "nowait" /\ cb'.pc = "sfx" /\ nw.res = "None"
           \/ cb.pc = "song" /\ cb'.pc = "idle")
          => (is_playing_song' /\ cb'.pc = "sfx" /\ fifo' = fifo)]_vars

\* C13: the container is never being closed while the worker-thread decode
\* operation of the fill task is still running, for any sequence of close()
\* calls, overlapping ones included.
C13_NoCloseDuringDecode == ~(closing # {} /\ thread_task = "running")

\* C14 as claimed: when close() returns the fill task is finished, the queue is
\* empty, the container is released and _eof is set; a close() called on a
\* closed decoder, or on a decoder that was never opened, returns at once and
\* changes nothing.
C14_CloseIdempotent ==
    [][\A c \in Closers :
         /\ (closer[c] # "done" /\ closer'[c] = "done") => ClosedState'
         /\ (closer[c] = "idle" /\ closer'[c] # "idle" /\ (ClosedState \/ open_pc = "idle"))
               => (closer'[c] = "done" /\ DecoderState' = DecoderState)]_vars

\* C14 as amended: when close() returns the decoder is in the closed state; a
\* close() called on a closed decoder returns at once and changes nothing; a
\* close() called on a decoder that was never opened returns at once and leaves
\* it in the closed state, changing nothing but _eof and _enough_samples, which
\* it sets.
C14_CloseReachesClosedState ==
    [][\A c \in Closers :
         /\ (closer[c] # "done" /\ closer'[c] = "done") => ClosedState'
         /\ (closer[c] = "idle" /\ closer'[c] # "idle" /\ ClosedState)
               => (closer'[c] = "done" /\ DecoderState' = DecoderState)
         /\ (closer[c] = "idle" /\ closer'[c] # "idle" /\ open_pc = "idle")
               => /\ closer'[c] = "done" /\ ClosedState' /\ enough_samples'
                  /\ <<fifo, src_pos, container, closing, not_full, enough_samples_num,
                       read_lock, loop_set, pending_calls, read_task, thread_task,
                       fill_cancel, open_pc>>'
                     = <<fifo, src_pos, container, closing, not_full, enough_samples_num,
                         read_lock, loop_set, pending_calls, read_task, thread_task,
                         fill_cancel, open_pc>>]_vars

\* C14: both callers have closed a decoder that had been opened and had decoded
\* frames.
C14_Witness ==
    /\ closer["stop"] = "done" /\ closer["main"] = "done"
    /\ open_pc = "done" /\ src_pos > 0
    /\ ClosedState

\* C15: when stop_stream() returns, whatever state it was called in, the song
\* decoder is closed, the stream is not active, is_playing_song is false and
\* there is no active effect.
C15_StopLeavesMixerStopped ==
    [][(stop_pc # "idle" /\ stop_pc' = "idle")
          => /\ ClosedState'
             /\ stream' # "active"
             /\ ~is_playing_song'
             /\ active_sfx' = << >>]_vars

\* C16: stop_stream() completes without raising in every state, the state in
\* which no song has been loaded included: no call of it ends in the
\* AttributeError of `self.song.close()` on None.
C16_StopNeverRaises == api.res # "AttributeError"

\* C17: a start_stream whose hardware stream fails to open does not return
\* normally, it ends in an error, and it leaves the mixer with no stream.
C17_FailedStartSurfaces ==
    [][(/\ api'.op = "start_failed"
        /\ api' # api \/ stream' # stream \/ cb_since' # cb_since)
          => (api'.res # "ok" /\ stream' = "none")]_vars

\* C18: a play_sound_effect call with a non-empty payload on an active stream
\* appends exactly one instance, with cursor 0, at the end of the active
\* effects and leaves the instances before it as they were; a call on an
\* inactive stream or with an empty payload leaves the collection unchanged;
\* no call raises.
C18_TriggerAppendsOne ==
    [][(/\ api'.op \in {"sfx", "sfx_empty"}
        /\ cb' = cb /\ stop_pc' = stop_pc
        /\ api' # api \/ cb_since' # cb_since \/ active_sfx' # active_sfx)
          => /\ api'.res = "ok"
             /\ IF api'.op = "sfx" /\ stream = "active"
                   THEN /\ Len(active_sfx') = Len(active_sfx) + 1
                        /\ SubSeq(active_sfx', 1, Len(active_sfx)) = active_sfx
                        /\ active_sfx'[Len(active_sfx')].pos = 0
                        /\ active_sfx'[Len(active_sfx')].len > 0
                   ELSE active_sfx' = active_sfx]_vars

\* C18: an effect has been triggered while another one, already partly
\* played, was active.
C18_Witness ==
    /\ api.op = "sfx" /\ stream = "active"
    /\ Len(active_sfx) = 2
    /\ active_sfx[1].pos > 0 /\ active_sfx[2].pos = 0

\* C19: the effects part of a callback removes exactly the instances whose own
\* cursor reaches the length of their buffer in that callback: every other
\* instance stays, whatever its trigger time, and no instance that stays has
\* its cursor at its length.
C19_RemovedExactlyWhenFinished ==
    [][(cb.pc = "sfx" /\ cb'.pc = "idle")
          => /\ Len(active_sfx') = Len(active_sfx) - Cardinality(SfxFinished(active_sfx, cb.n))
             /\ \A i \in 1..Len(active_sfx') : active_sfx'[i].pos < active_sfx'[i].len]_vars

\* C20: every triggered effect is consumed, then removed: in each callback of n
\* frames an instance with more than n frames left stays and advances by n,
\* and an instance that stays has advanced by n and has frames left, so that
\* an effect of L frames is played whole and is gone after ceil(L/n)
\* callbacks, whatever else is active.
C20_ConsumedThenRemoved ==
    [][(cb.pc = "sfx" /\ cb'.pc = "idle")
          => /\ \A i \in 1..Len(active_sfx) :
                  active_sfx[i].pos + cb.n < active_sfx[i].len
                     => \E j \in 1..Len(active_sfx') :
                           active_sfx'[j] = [active_sfx[i] EXCEPT !.pos = @ + cb.n]
             /\ \A j \in 1..Len(active_sfx') :
                  /\ active_sfx'[j].pos < active_sfx'[j].len
                  /\ \E i \in 1..Len(active_sfx) :
                        active_sfx'[j] = [active_sfx[i] EXCEPT !.pos = @ + cb.n]]_vars

\* C21: with K >= 1 active effects the effects' part of a slot is the latest
\* effect's sample at 60% plus the other K-1 samples at 10%/(K-1) each, and
\* its magnitude is at most 70% of full scale for every K.
C21_GainPolicy ==
    (mix_pc \in {"sum", "clip", "done"} /\ Len(sfx_samples) >= 1)
       => LET K == Len(sfx_samples)
              shares == IF K = 1 THEN 1 ELSE K - 1
              latest == sfx_samples[K]
              others == SumSeq(SubSeq(sfx_samples, 1, K - 1))
              mix == temp_float_sfx_mix
          IN  /\ mix.den > 0
              /\ mix.num * (10 * shares * SfxDen) = mix.den * (6 * shares * latest + others)
              /\ 10 * mix.num <= 7 * mix.den
              /\ -(10 * mix.num) <= 7 * mix.den

\* C21: MaxMixSfx effects, all at full scale: the effects' part is 70%.
C21_Witness ==
    /\ mix_pc = "done"
    /\ Len(sfx_samples) = MaxMixSfx
    /\ \A i \in 1..Len(sfx_samples) : sfx_samples[i] = SfxDen
    /\ 10 * temp_float_sfx_mix.num = 7 * temp_float_sfx_mix.den

\* C22: the number of active effects stays under a fixed bound of the
\* program's own: play_sound_effect calls between two callbacks do not fill
\* the collection up to the cap MaxSfx, which is the model's and not the code's.
C22_ActiveEffectsBounded == Len(active_sfx) < MaxSfx

\* C23: _pa_ts_offset is computed in the first callback and frozen: once a
\* callback has been entered it is set, and once it is set no step, of a
\* callback or of stop_stream, start_stream, load_song or resume_song, changes
\* it.
C23_OffsetFrozen ==
    [][/\ pa_ts_offset # None => pa_ts_offset' = pa_ts_offset
       /\ (cb.pc = "idle" /\ cb'.pc # "idle") => pa_ts_offset' # None]_vars

\* C23: a callback later than the first is under way, after a resume_song,
\* with an offset of 1 ms or more stored.
C23_Witness ==
    /\ pa_ts_offset = Some(MsTicks)
    /\ cb.pc = "song" /\ playback_time > MaxGap
    /\ api.op = "resume"

\* C24: an offset of magnitude below 1 ms, positive or negative, is stored as
\* exactly 0: the offset stored is 0 or has a magnitude of 1 ms or more.
C24_SubMsStoredAsZero ==
    pa_ts_offset # None
       => \/ ValueOf(pa_ts_offset) = 0
          \/ ValueOf(pa_ts_offset) >= MsTicks
          \/ ValueOf(pa_ts_offset) <= -MsTicks

\* C25: a callback that mixes song samples sets song_start_time to hardware
\* timestamp + _pa_ts_offset - the timestamp of the frame it has just read,
\* or to None when that frame has no timestamp; a read_nowait that takes a
\* frame leaves that frame's timestamp in last_read_pts.
C25_StartTimeFromFrameRead ==
    [][/\ (cb.pc = "nowait" /\ cb'.pc = "sfx" /\ cb_frame.has)
            => song_start_time' =
                  IF cb_frame.pts = None THEN None
                  ELSE Some(playback_time + ValueOf(pa_ts_offset) - ValueOf(cb_frame.pts))
       /\ (cb.pc = "song" /\ cb'.pc = "nowait" /\ cb_frame'.has)
            => last_read_pts' = cb_frame'.pts]_vars

\* C26: steady playback: a callback that mixes a full buffer of the song and
\* whose hardware timestamp is the end of the buffer of the callback before
\* it, which mixed a full buffer of the same song, leaves song_start_time at
\* the value that callback gave it.
C26_StartTimeSteady ==
    [][(/\ cb.pc = "nowait" /\ cb'.pc = "sfx"
        /\ cb_frame.has /\ cb_frame.cur
        /\ steady_time = Some(playback_time))
          => song_start_time' = song_start_time]_vars

\* C26: the second of two such callbacks has run on a song whose frames carry
\* timestamps, with a non-zero offset.
C26_Witness ==
    /\ cb.pc = "sfx"
    /\ steady_time = Some(next_time)
    /\ samples_read > MaxNowait
    /\ pts_per_sample = "one"
    /\ song_start_time # None
    /\ pa_ts_offset # Some(0)

\* C27: from load_song until the first callback that mixes samples of the
\* song loaded (no frame of it has been read), song_start_time is None.
C27_StartTimeNoneUntilMixed ==
    (song # "none" /\ samples_read = 0) => song_start_time = None

\* C28: once the decoder has reached the end of the stream (_eof is set on an
\* opened AudioFile) the queue gets no
\* new frames, and read_nowait calls give frames only finitely many times:
\* from some point on no read_nowait returns frames, every one that returns
\* gives None.
C28_NowaitDriesUpAfterEof ==
    /\ [][(eof /\ open_pc = "done") => (eof' /\ Len(fifo') <= Len(fifo))]_vars
    /\ <>[][(nw.pc # "idle" /\ nw'.pc = "idle") => nw'.res = "None"]_vars

\* C28: after the end of the stream a read_nowait is about to give None with
\* frames left in the queue, fewer than it asks for.
C28_Witness ==
    /\ eof /\ open_pc = "done" /\ read_task = "done"
    /\ nw.pc = "test"
    /\ 0 < Len(fifo) /\ Len(fifo) < nw.n

\* C29: an open() whose source holds no audio stream or more than one ends
\* with the error and creates no fill task: the fill task is left as it was,
\* not running, and stays so until the next open(); an open() on one audio
\* stream returns.
C29_BadStreamCountFailsNoTask ==
    [][/\ (open_pc = "opening" /\ open_pc' # "opening")
            => IF container' = "other"
                  THEN open_pc' = "failed" /\ read_task' = read_task
                  ELSE open_pc' = "done"
       /\ open_pc' = "failed" => read_task' \in {"none", "done"}]_vars

\* C29: an open() has failed on an AudioFile whose earlier open() had started
\* a fill task.
C29_Witness ==
    /\ open_pc = "failed" /\ container = "other"
    /\ read_task = "done"

\* C30: when open() opens the new container, close() has left nothing of the
\* previous source: the fill task is finished, self.container is None and no
\* close of the previous container is still running.
C30_ClosedBeforeOpened ==
    [][(open_pc # "opening" /\ open_pc' = "opening")
          => (/\ read_task' \in {"none", "done"}
              /\ container' = "none"
              /\ closing' = {})]_vars

\* C31: a read_nowait that returns frames and leaves the queue below the bound
\* while the fill loop is suspended on the gate releases the gate: when it
\* returns, _not_full is set or its _not_full.set is still queued on the loop,
\* so the fill loop goes on without another consumer call.
C31_NowaitReleasesGate ==
    [][(/\ nw.pc = "read" /\ nw'.pc = "idle" /\ nw'.res = "frames"
        /\ read_task' = "gate"
        /\ Len(fifo') < BufferSamples)
          => (not_full' \/ pending_calls' > 0)]_vars

\* C32: the queue is under mutual exclusion across the threads: while the
\* realtime thread is inside read_nowait, between its test of the queue's
\* length and its read, no step of the event-loop thread (a write of the fill
\* loop, a drain of close() or of read()) changes the queue.
C32_QueueMutualExclusion ==
    [][(nw.pc \in {"test", "read"} /\ nw' = nw) => fifo' = fifo]_vars

\* The sum the callback clips for the slot:
\* int(outdata_view[i] + temp_float_sfx_mix[i] * max_val)
RawSum ==
    IntOf(outdata * temp_float_sfx_mix.den + temp_float_sfx_mix.num * max_val,
          temp_float_sfx_mix.den)

\* C33: clipping is idempotent and the identity on in-range values, on the
\* samples tried and on the sums the callback forms: the first clip leaves an
\* in-range sum as it is, the final clip leaves the clipped sample as it is;
\* and a callback with no song sample and no active effect writes zero_val.
C33_ClipIdempotentSilence ==
    [][/\ \A x \in ClipSamples \cup {outdata, RawSum} :
            /\ _clip_sample(_clip_sample(x)) = _clip_sample(x)
            /\ (min_val <= x /\ x <= max_val) => _clip_sample(x) = x
       /\ mix_pc = "sum" => outdata' = _clip_sample(RawSum)
       /\ (mix_pc = "sum" /\ min_val <= RawSum /\ RawSum <= max_val)
            => outdata' = RawSum
       /\ mix_pc = "clip" => outdata' = outdata
       /\ (~song_data.some /\ sfx_samples = << >> /\ mix_pc # "enter") => outdata' = zero_val]_vars

\* C33: the song and MaxMixSfx effects at negative full scale: the sum is
\* under min_val, the sample clipped to min_val has gone through the final clip.
C33_Witness ==
    /\ mix_pc = "done"
    /\ song_data.some /\ song_data.value = min_val
    /\ Len(sfx_samples) = MaxMixSfx
    /\ \A i \in 1..Len(sfx_samples) : sfx_samples[i] = -SfxDen
    /\ outdata = min_val

\* C34: the queue keeps the order of the decoded stream without loss or
\* duplication.  It holds the frames decoded last, in order, up to the last
\* frame decoded, so the frames taken so far are the stream's first
\* src_pos - Len(fifo) frames; a step that changes it either appends the next
\* frames decoded or takes frames from its head in a read or read_nowait that
\* returns with them.
C34_QueueKeepsOrder ==
    [][(open_pc = "done" /\ open_pc' = "done")
          => /\ \A i \in 1..Len(fifo') : fifo'[i] = src_pos' - Len(fifo') + i
             /\ fifo' # fifo
                  => \/ /\ src_pos' > src_pos
                        /\ fifo' = fifo \o Chunk(src_pos, src_pos' - src_pos)
                     \/ /\ src_pos' = src_pos
                        /\ Len(fifo') < Len(fifo)
                        /\ fifo' = SubSeq(fifo, Len(fifo) - Len(fifo') + 1, Len(fifo))
                        /\ \/ nw.pc = "read" /\ nw'.res = "frames"
                           \/ \E r \in Readers : /\ reader[r].pc \in {"idle", "take", "wait"}
                                                  /\ reader'[r].pc = "idle"
                                                  /\ reader'[r].res = "ok"
                                                  /\ nw' = nw]_vars

\* C34: read and read_nowait have both returned frames, the stream's first
\* three at least, and more frames are queued.
C34_Witness ==
    /\ open_pc = "done"
    /\ \E r \in Readers : reader[r].res = "ok"
    /\ nw.res = "frames"
    /\ Len(fifo) > 0
    /\ src_pos - Len(fifo) >= 3

\* C35: no two container.close() run at the same time on the container of a
\* decoder, whatever close() and the fill loop do.
C35_OneCloseAtATime == Cardinality(closing) <= 1

\* C36: a mixer has at most one live decoder: when load_song replaces
\* self.song, which leaves the AudioFile replaced without a reference, that
\* decoder is closed: its container is closed, no close of it is running and
\* its fill task is finished.
C36_ReplacedDecoderClosed ==
    [][(load_pc.pc = "idle" /\ load_pc'.pc = "created")
          => (/\ container = "none"
              /\ closing = {}
              /\ read_task \in {"none", "done"})]_vars

\* C37: is_playing_song implies that a song is loaded and that the stream is
\* there and active.
C37_PlayingImpliesSongAndStream ==
    is_playing_song => (song # "none" /\ stream = "active")

\* C38: when load_song(path, play_now=False) completes, its caller having
\* awaited it, the song loaded is not playing: is_playing_song is false,
\* whether or not a song was playing when load_song was called; and
\* is_playing_song becomes true only in a resume_song or at the end of a
\* load_song with play_now.
C38_LoadWithoutPlayNotPlaying ==
    [][/\ (load_pc.pc = "opening" /\ load_pc'.pc = "idle" /\ ~load_pc.play)
            => ~is_playing_song'
       /\ (~is_playing_song /\ is_playing_song')
            => \/ api'.op \in {"resume", "resume_again"} /\ api' # api
               \/ load_pc.pc = "opening" /\ load_pc'.pc = "idle" /\ load_pc.play]_vars

\* C39: an open() that has failed on the count of audio streams leaves the
\* decoder closed: no container is stored on the AudioFile and none is being
\* closed.
C39_FailedOpenLeavesClosed ==
    open_pc = "failed" => (container = "none" /\ closing = {})

\* C40: each note makes exactly one increment to the judgement counters, when
\* it gets its final judgement: a note that is not judged has made none, a
\* note that is judged has made one, and the judgement of a judged note stays.
C40_OneIncrementPerNote ==
    [][\A i \in 1..Len(notes') :
          /\ counted'[i] = IF notes'[i].is_judged THEN 1 ELSE 0
          /\ (Len(notes) = Len(notes') /\ notes[i].is_judged)
                => (notes'[i].is_judged
                    /\ notes'[i].judgement_result = notes[i].judgement_result)]_vars

====
